---- MODULE Spec2Model ----
(***************************************************************************)
(* Grid runner: the run orchestrator (RunnerScene), the audio manager and  *)
(* the hazard / hotspot engines, as a state machine.                       *)
(*                                                                         *)
(* One step of the model is one turn of the JavaScript event loop: a       *)
(* macrotask (an input event, a setTimeout callback, an externally         *)
(* resolved promise, one game-loop step) runs to its first await, and the  *)
(* continuations that its resolutions make ready run (as microtasks)       *)
(* before any other macrotask.  A game-loop step is written as two steps,  *)
(* Tick (the clock advances, due timer and tween callbacks run) and then   *)
(* Update (scene.update), with nothing in between.  Times are integers in  *)
(* milliseconds.                                                           *)
(***************************************************************************)
EXTENDS Integers, Sequences, FiniteSets, TLC

VARIABLES
    am,          \* AudioManager fields and its in-flight stop cleanups
    Tone,        \* window.Tone: presence, Transport state, synths and parts
    sa,          \* startAudio invocations (position, awaited promise, result)
    saCount,     \* number of startAudio invocations made so far
    stopWaiters, \* callers suspended at `await stopAudio()` outside startGame/startAudio
    stopReq,     \* history: number of stopAudio() calls made, per caller
    now,         \* performance.now() / Tone.now(), in ms
    sc,          \* RunnerScene fields
    starts,      \* startGame invocations (position, awaited promise)
    pl,          \* PlayerManager fields
    hz,          \* HazardManager fields
    hs,          \* HotspotManager fields
    phase,       \* position in the game-loop step: "idle" or "update"
    hist         \* history: counters of the orchestrator's transitions

audioVars == <<am, Tone, sa, saCount, stopWaiters, stopReq>>
sceneVars == <<sc, starts, pl, hz, hs, phase, hist, now>>
vars == <<am, Tone, sa, saCount, stopWaiters, stopReq, now,
          sc, starts, pl, hz, hs, phase, hist>>

----------------------------------------------------------------------------
(* Bounds of the model *)

MaxNow == 1750        \* the game loop is followed up to this clock value
MaxIdleNow == 500     \* ... up to this value before the first run begins
StartNow == 250       \* clock value when the scene is constructed
MaxIgnored == 1       \* start requests made while a start is in progress
MaxMenuClicks == 1    \* clicks on the "Back to Menu" label

MaxBodies == 2        \* stop cleanups that can be in flight together
MaxStarts == 2        \* startGame / startAudio invocations per scene instance
MaxTracks == 2        \* tracks selected for playback by one startAudio
MaxClientCalls == 3   \* stop requests issued by the client in SpecAudio
ToneOrigin == 100     \* performance.now() when the audio clock reads 0
MaxLongNow == 12250   \* ... and up to this value in a run without a score
MaxLags == 2          \* clock advances of that run without a call of update
EveryBeat == 1        \* a greenEveryBeats other than the default
MaxNotes == 3         \* notes of the first track of a score
MaxNotes2 == 1        \* notes of its second track
ScoreTempo == 150     \* bpm of the tempo event of a score that has one
LargeCap == 1000000   \* a very large maxEventsPerSec
MaxBeatIndex == 20    \* beat and subdivision indexes given to the grid
MaxHazards == 2       \* hazards given to an update of the HazardManager
MaxArmNow == 4250     \* the clock's last value in the run that follows arming
MaxHazNow == 750      \* clock value up to which it is updated
MaxHsResets == 1      \* resets of the HotspotManager in that run
LagDelta == 1000      \* duration of a long frame, ms
PrevBPM == 100        \* tempo of the score loaded in an earlier visit
PrevBeatMs == 600     \* ... and its beat length, ms

(* Program constants *)

MaxAttempts == 50          \* polling attempts for window.Tone
AudioStartDelayMs == 150   \* audioStartDelay = 0.15 s

Width == 800               \* game.config.width
Height == 600              \* game.config.height
Rows == 3                  \* gridRows
Cols == 3                  \* gridCols
HazardSpeed == 300         \* params.hazardSpeed, px/s (preset "easy")
LaneJitter == 10           \* params.laneJitter, px
LookaheadMs == 150         \* params.lookaheadSec = 0.15
GreenEveryBeats == 4       \* params.greenEveryBeats
RedEverySubdiv == 2        \* params.redEverySubdiv
SeedA == 7                 \* params.seedA
SeedB == 3                 \* params.seedB
MaxRed == 3                \* cap on concurrent red hotspots
HitDistance == 36          \* collision radius, px
ArmMs == 500               \* duration of the activation tween
RedExpireMs == 10000       \* delay of a red hotspot's expireEvent
DeathTweenMs == 250        \* duration of the player's pop animation
MenuDelayMs == 3000        \* delay before the return to the menu after victory
DefaultBPM == 120          \* trackBPM when no score is loaded
DefaultBeatMs == 500       \* secondsPerBeat = 0.5 when no score is loaded
SpawnLeftX == -60          \* spawn x of a hazard coming from the left
SpawnMargin == 60          \* spawn x from the right is width + 60
CleanupMargin == 100       \* a hazard is retired 100 px beyond the screen

Null == -1
NoScore == [missing |-> TRUE]     \* midiData is null
NoTrack == [built |-> FALSE]      \* this.track before buildMIDIEvents
NoCell == [row |-> -1, col |-> -1]

BodyIds == 1..MaxBodies
SaIds == 1..MaxStarts
ObjIds == 1..(MaxStarts * MaxTracks)

----------------------------------------------------------------------------
(* Helpers *)

Max(a, b) == IF a >= b THEN a ELSE b
Min(a, b) == IF a <= b THEN a ELSE b

Range(s) == {s[k] : k \in 1..Len(s)}

RECURSIVE Bump(_, _)
\* dispose() called once on every object of the array s (a counter per object)
Bump(f, s) ==
    IF s = <<>> THEN f
    ELSE Bump([f EXCEPT ![Head(s)] = @ + 1], Tail(s))

RunningBodies(a) == {b \in BodyIds : a.bodies[b].pc # "free"}

----------------------------------------------------------------------------
(* AudioManager.stopAudio *)

\* The tail of the cleanup between the part-stop loop and the 50 ms wait:
\* Transport.cancel, dispose every part of this.parts, dispose every synth
\* of this.midiPlayers, empty both arrays.
CleanupTail(w, b) ==
    [am |-> [w.am EXCEPT !.parts = <<>>,
                         !.midiPlayers = <<>>,
                         !.bodies[b] = [pc |-> "finalWait", left |-> 0]],
     Tone |-> [w.Tone EXCEPT !.partDisposed = Bump(@, w.am.parts),
                             !.synthDisposed = Bump(@, w.am.midiPlayers)]]

\* The cleanup IIFE up to its first await.
StartCleanup(w, b) ==
    LET w1 == [w EXCEPT !.Tone.transport = "stopped"]
    IN  IF Len(w1.am.parts) > 0
        THEN [w1 EXCEPT !.am.bodies[b] =
                  [pc |-> "stopLoop", left |-> Len(w1.am.parts) - 1]]
        ELSE CleanupTail(w1, b)

FreeBody(a) == CHOOSE b \in BodyIds :
                  /\ a.bodies[b].pc = "free"
                  /\ \A c \in BodyIds : a.bodies[c].pc = "free" => b <= c

\* stopAudio needs a fresh cleanup record only when it starts a cleanup.
CanStop(w) ==
    \/ ~w.Tone.loaded
    \/ w.am.stopPromise # 0
    \/ \E b \in BodyIds : w.am.bodies[b].pc = "free"

\* stopAudio(): the new state and the promise the caller gets
\* (ret = 0: already resolved; ret = b: resolves when cleanup b resolves).
stopAudio_NoGuard(w) ==
    LET w1 == [w EXCEPT !.am.audioStarted = FALSE]
    IN  IF ~w1.Tone.loaded
        THEN [am |-> [w1.am EXCEPT !.midiPlayers = <<>>, !.parts = <<>>],
              Tone |-> w1.Tone, ret |-> 0]
        ELSE LET b == FreeBody(w1.am)
                 w2 == StartCleanup(w1, b)
             IN  [am |-> [w2.am EXCEPT !.stopPromise = b],
                  Tone |-> w2.Tone, ret |-> b]

stopAudio(w) ==
    LET w1 == [w EXCEPT !.am.audioStarted = FALSE]
    IN  IF ~w1.Tone.loaded
        THEN [am |-> [w1.am EXCEPT !.midiPlayers = <<>>, !.parts = <<>>],
              Tone |-> w1.Tone, ret |-> 0]
        ELSE IF w1.am.stopPromise # 0
        THEN [am |-> w1.am, Tone |-> w1.Tone,
              ret |-> IF w1.am.bodies[w1.am.stopPromise].pc = "free"
                      THEN 0 ELSE w1.am.stopPromise]
        ELSE LET b == FreeBody(w1.am)
                 w2 == StartCleanup(w1, b)
             IN  [am |-> [w2.am EXCEPT !.stopPromise = b],
                  Tone |-> w2.Tone, ret |-> b]

World == [am |-> am, Tone |-> Tone]

Callers == {"client", "startGame", "startAudio", "hit", "complete", "menu"}

Called(c) == [stopReq EXCEPT ![c] = @ + 1]

----------------------------------------------------------------------------
(* AudioManager.startAudio *)

SaIdle == [pc |-> "none", wait |-> 0, pend |-> {}, attempts |-> 0,
           res |-> Null, hasMidi |-> FALSE, ntracks |-> 0]

SaDone(r, res) == [SaIdle EXCEPT !.pc = "done", !.res = res]

\* startAudio up to its first await: it calls stopAudio and suspends on the
\* promise.  pend: the cleanups in flight when the request suspends (those
\* pending at the call and the one the call itself started).
startAudio_NoAwait(w, hasMidi, ntracks) ==
    LET r == stopAudio(w)
    IN  [am |-> r.am, Tone |-> r.Tone,
         rec |-> [SaIdle EXCEPT !.pc = "awaitStop", !.wait = 0,
                                !.pend = RunningBodies(r.am),
                                !.hasMidi = hasMidi, !.ntracks = ntracks]]

startAudio(w, hasMidi, ntracks) ==
    LET r == stopAudio(w)
    IN  [am |-> r.am, Tone |-> r.Tone,
         rec |-> [SaIdle EXCEPT !.pc = "awaitStop", !.wait = r.ret,
                                !.pend = RunningBodies(r.am),
                                !.hasMidi = hasMidi, !.ntracks = ntracks]]

\* while (!window.Tone && attempts < 50) await 100 ms; then null or Tone.start()
PollCheck_NoCount(r) ==
    IF ~Tone.loaded THEN [r EXCEPT !.pc = "poll", !.attempts = 0]
    ELSE [r EXCEPT !.pc = "toneStart"]

PollCheck(r) ==
    IF ~Tone.loaded /\ r.attempts < MaxAttempts THEN [r EXCEPT !.pc = "poll"]
    ELSE IF ~Tone.loaded THEN SaDone(r, Null)
    ELSE [r EXCEPT !.pc = "toneStart"]

\* Tone.now(): the audio clock, which reads 0 when performance.now() reads
\* ToneOrigin (in ms here, in seconds in the code)
ToneNow == now - ToneOrigin

\* The synchronous section of startAudio after the 20 ms wait: the arrays are
\* replaced, the Transport is reset, one synth and one part are created per
\* track, the Transport is started at Tone.now() + 0.15.
NewObjs(n) == [k \in 1..n |-> Tone.nextObj + k - 1]

CreateVoices(r) ==
    [am |-> [am EXCEPT !.midiPlayers = NewObjs(r.ntracks),
                       !.parts = NewObjs(r.ntracks),
                       !.audioStarted = TRUE],
     Tone |-> [Tone EXCEPT !.transport = "started",
                           !.nextObj = @ + r.ntracks],
     rec |-> SaDone(r, ToneNow + AudioStartDelayMs)]

----------------------------------------------------------------------------
(* GridManager *)

\* JavaScript's % : the sign of the result follows the dividend.
JSMod(a, b) == IF a >= 0 THEN a % b ELSE 0 - ((0 - a) % b)

\* buildPositions: spacing * (i + 1) with spacing = size / (count + 1),
\* for the 0-based index i
LaneY(row) == (Height * (row + 1)) \div (Rows + 1)
ColumnX(col) == (Width * (col + 1)) \div (Cols + 1)

getCenterRow == (Rows - 1) \div 2
getCenterColumn == (Cols - 1) \div 2

clampRow(index) == Max(0, Min(index, Rows - 1))
clampColumn(index) == Max(0, Min(index, Cols - 1))

getCellFromBeatIndex(beatIndex, seedA, seedB) ==
    LET cellIndex == JSMod(beatIndex * seedA + seedB, Rows * Cols)
    IN  [row |-> cellIndex \div Cols, col |-> JSMod(cellIndex, Cols)]

----------------------------------------------------------------------------
(* PlayerManager *)

handleInput_Unclamped(p, dv, dh) ==
    [p EXCEPT !.currentLaneIndex = @ + dv,
              !.currentColumnIndex = @ + dh,
              !.moveTween = IF dv # 0 \/ dh # 0
                            THEN [row |-> p.currentLaneIndex + dv,
                                  col |-> p.currentColumnIndex + dh]
                            ELSE @]

\* handleInput: dv, dh are the freshly pressed keys (-1: up / left, 1: down /
\* right, 0: none).  A move starts a 100 ms tween of the sprite to the cell.
handleInput(p, dv, dh) ==
    LET lane == IF dv = -1 THEN Max(0, p.currentLaneIndex - 1)
                ELSE IF dv = 1 THEN Min(Rows - 1, p.currentLaneIndex + 1)
                ELSE p.currentLaneIndex
        col == IF dh = -1 THEN Max(0, p.currentColumnIndex - 1)
               ELSE IF dh = 1 THEN Min(Cols - 1, p.currentColumnIndex + 1)
               ELSE p.currentColumnIndex
    IN  [p EXCEPT !.currentLaneIndex = lane,
                  !.currentColumnIndex = col,
                  !.moveTween = IF dv # 0 \/ dh # 0
                                THEN [row |-> lane, col |-> col] ELSE @]

\* reset: the cell is set and the sprite is placed on it at once.
PlayerReset(p, laneIndex, columnIndex) ==
    [p EXCEPT !.currentLaneIndex = clampRow(laneIndex),
              !.currentColumnIndex = clampColumn(columnIndex),
              !.sprite = [row |-> clampRow(laneIndex),
                          col |-> clampColumn(columnIndex)]]

\* The move tween completes: the sprite is on its target cell.
MoveTweenDone(p) ==
    IF p.moveTween = NoCell THEN p
    ELSE [p EXCEPT !.sprite = p.moveTween, !.moveTween = NoCell]

----------------------------------------------------------------------------
(* HazardManager *)

\* spawnHazardFromEvent: offset is Between(-laneJitter, laneJitter), fromLeft
\* the outcome of sideMode "random".
spawnHazardFromEvent(h, evt, offset, fromLeft) ==
    [h EXCEPT !.activeHazards = Append(@,
        [x |-> IF fromLeft THEN SpawnLeftX ELSE Width + SpawnMargin,
         y |-> LaneY(clampRow(evt.laneRow)) + offset,
         vx |-> IF fromLeft THEN HazardSpeed ELSE 0 - HazardSpeed])]

Moved(hzd, delta) == [hzd EXCEPT !.x = @ + (hzd.vx * delta) \div 1000]

OffScreen(hzd) ==
    \/ hzd.vx > 0 /\ hzd.x > Width + CleanupMargin
    \/ hzd.vx < 0 /\ hzd.x < 0 - CleanupMargin

Near_Inclusive(hzd, sprite) ==
    LET dx == hzd.x - ColumnX(sprite.col)
        dy == hzd.y - LaneY(sprite.row)
    IN  dx * dx + dy * dy <= HitDistance * HitDistance

Near(hzd, sprite) ==
    LET dx == hzd.x - ColumnX(sprite.col)
        dy == hzd.y - LaneY(sprite.row)
    IN  dx * dx + dy * dy < HitDistance * HitDistance

RECURSIVE MoveAll_EitherSide(_, _)
MoveAll_EitherSide(s, delta) ==
    IF s = <<>> THEN <<>>
    ELSE LET m == Moved(Head(s), delta)
         IN  IF m.x > Width + CleanupMargin \/ m.x < 0 - CleanupMargin
             THEN MoveAll_EitherSide(Tail(s), delta)
             ELSE <<m>> \o MoveAll_EitherSide(Tail(s), delta)

RECURSIVE MoveAll(_, _)
MoveAll(s, delta) ==
    IF s = <<>> THEN <<>>
    ELSE LET m == Moved(Head(s), delta)
         IN  IF OffScreen(m) THEN MoveAll(Tail(s), delta)
             ELSE <<m>> \o MoveAll(Tail(s), delta)

\* update: motion, retirement, and the hazards in collision with the sprite
HazardUpdate(h, delta, sprite) ==
    LET kept == MoveAll(h.activeHazards, delta)
    IN  [hz |-> [h EXCEPT !.activeHazards = kept],
         collisions |-> {k \in 1..Len(kept) : Near(kept[k], sprite)}]

HazardClear(h) == [h EXCEPT !.activeHazards = <<>>, !.sideAlternator = FALSE]

----------------------------------------------------------------------------
(* HotspotManager *)

clearGreenHotspot(g) ==
    [g EXCEPT !.greenHotspot = NoCell, !.greenActive = FALSE,
              !.greenArmAt = Null]

clearRedHotspots(g) == [g EXCEPT !.redHotspots = <<>>]

HotspotReset_RedsKept(g) ==
    [clearGreenHotspot(g) EXCEPT !.lastBeatTime = -1, !.lastSubdivTime = -1]

HotspotReset_TrackersKept(g) == clearRedHotspots(clearGreenHotspot(g))

HotspotReset(g) ==
    [clearRedHotspots(clearGreenHotspot(g)) EXCEPT !.lastBeatTime = -1,
                                                   !.lastSubdivTime = -1]

IsRed(g, cell) ==
    \E k \in 1..Len(g.redHotspots) :
        g.redHotspots[k].row = cell.row /\ g.redHotspots[k].col = cell.col

spawnGreenHotspotFromBeat(g, beatIndex, t) ==
    LET cell == getCellFromBeatIndex(beatIndex, SeedA, SeedB)
        nextCell == getCellFromBeatIndex(beatIndex + 1, SeedA, SeedB)
    IN  [clearGreenHotspot(g) EXCEPT
            !.greenHotspot = IF IsRed(g, cell) THEN nextCell ELSE cell,
            !.greenArmAt = t + ArmMs]

\* this.redHotspots.length >= 3 (lines 42 and 109)
RedFull_Never(g) == FALSE

RedFull(g) == Len(g.redHotspots) >= MaxRed

spawnRedHotspotFromBeat_NoRedCheck(g, beatIndex, t) ==
    LET cell == getCellFromBeatIndex(beatIndex, SeedA, SeedB)
    IN  IF RedFull(g) THEN g
        ELSE IF g.greenHotspot # NoCell /\ g.greenHotspot = cell THEN g
        ELSE [g EXCEPT !.redHotspots = Append(@,
                 [row |-> cell.row, col |-> cell.col, active |-> FALSE,
                  armAt |-> t + ArmMs, expireAt |-> t + RedExpireMs])]

spawnRedHotspotFromBeat(g, beatIndex, t) ==
    LET cell == getCellFromBeatIndex(beatIndex, SeedA, SeedB)
    IN  IF RedFull(g) THEN g
        ELSE IF g.greenHotspot # NoCell /\ g.greenHotspot = cell THEN g
        ELSE IF IsRed(g, cell) THEN g
        ELSE [g EXCEPT !.redHotspots = Append(@,
                 [row |-> cell.row, col |-> cell.col, active |-> FALSE,
                  armAt |-> t + ArmMs, expireAt |-> t + RedExpireMs])]

\* updateHotspotsFromBeats(trackTimeSec, trackBPM, secondsPerBeat); t is the
\* clock value at which tweens and timers created here start.
updateHotspotsFromBeats(g, trackTime, trackBPM, secondsPerBeat, t) ==
    IF trackBPM = 0 \/ secondsPerBeat = 0 THEN g
    ELSE
    LET currentBeat == trackTime \div secondsPerBeat
        g1 == IF /\ JSMod(currentBeat, g.greenEveryBeats) = 0
                 /\ currentBeat # g.lastBeatTime
                 /\ (g.greenHotspot = NoCell \/ ~g.greenActive)
              THEN spawnGreenHotspotFromBeat(g, currentBeat, t)
              ELSE g
        subdiv == (trackTime * RedEverySubdiv) \div secondsPerBeat
        g2 == IF /\ JSMod(subdiv, RedEverySubdiv) = 1
                 /\ subdiv # g1.lastSubdivTime
                 /\ ~RedFull(g1)
              THEN [spawnRedHotspotFromBeat(g1, subdiv, t)
                       EXCEPT !.lastSubdivTime = subdiv]
              ELSE g1
    IN  [g2 EXCEPT !.lastBeatTime = currentBeat]

GreenHit(g, lane, column) ==
    /\ g.greenHotspot # NoCell
    /\ g.greenActive
    /\ g.greenHotspot.row = lane
    /\ g.greenHotspot.col = column

checkRedHotspots_AnyPhase(g, lane, column) ==
    \E k \in 1..Len(g.redHotspots) :
        /\ g.redHotspots[k].row = lane
        /\ g.redHotspots[k].col = column

checkRedHotspots(g, lane, column) ==
    \E k \in 1..Len(g.redHotspots) :
        /\ g.redHotspots[k].active
        /\ g.redHotspots[k].row = lane
        /\ g.redHotspots[k].col = column

\* removeRedHotspot(hotspot): indexOf, and splice when it is found
removeRedHotspot(reds, hotspot) ==
    IF \E k \in 1..Len(reds) : reds[k] = hotspot
    THEN LET i == CHOOSE k \in 1..Len(reds) :
                     /\ reds[k] = hotspot
                     /\ \A j \in 1..(k - 1) : reds[j] # hotspot
         IN  [j \in 1..(Len(reds) - 1) |->
                 IF j < i THEN reds[j] ELSE reds[j + 1]]
    ELSE reds

\* The tween and timer callbacks of the hotspots that are due at time t:
\* an activation tween completes (the hotspot becomes active), an expireEvent
\* fires (removeRedHotspot).
RECURSIVE RedTimers_NoExpiry(_, _)
RedTimers_NoExpiry(s, t) ==
    IF s = <<>> THEN <<>>
    ELSE <<[Head(s) EXCEPT !.active = (@ \/ Head(s).armAt <= t)]>>
           \o RedTimers_NoExpiry(Tail(s), t)

RECURSIVE RedTimers(_, _)
RedTimers(s, t) ==
    IF s = <<>> THEN <<>>
    ELSE LET h == Head(s)
         IN  IF h.expireAt <= t THEN RedTimers(Tail(s), t)
             ELSE <<[h EXCEPT !.active = (@ \/ h.armAt <= t)]>>
                    \o RedTimers(Tail(s), t)

HotspotTimers(g, t) ==
    LET due == g.greenArmAt # Null /\ g.greenArmAt <= t
    IN  [g EXCEPT !.greenActive = (@ \/ due),
                  !.greenArmAt = IF due THEN Null ELSE @,
                  !.redHotspots = RedTimers(@, t)]

----------------------------------------------------------------------------
(* Promises and the event loop *)

\* A continuation is ready: it runs before any other macrotask.
StartReady(i) ==
    \/ starts[i].pc = "awaitStop" /\ starts[i].wait = 0
    \/ starts[i].pc = "awaitMidi" /\ sc.midiLoad = "settled"
    \/ starts[i].pc = "awaitAudio" /\ sa[starts[i].sa].pc = "done"

SaReady(i) == sa[i].pc = "awaitStop" /\ sa[i].wait = 0

WaiterReady(k) == stopWaiters[k].wait = 0

MicrotaskReady ==
    \/ \E i \in SaIds : StartReady(i) \/ SaReady(i)
    \/ \E k \in 1..Len(stopWaiters) : WaiterReady(k)

\* Cleanup b resolved: every caller suspended on its promise becomes ready.
ResolveSa(s, b) ==
    [i \in SaIds |-> [s[i] EXCEPT !.wait = IF @ = b THEN 0 ELSE @,
                                  !.pend = @ \ {b}]]

ResolveStarts(s, b) ==
    [i \in SaIds |-> [s[i] EXCEPT !.wait = IF @ = b THEN 0 ELSE @]]

ResolveWaiters(s, b) ==
    [k \in 1..Len(s) |-> [s[k] EXCEPT !.wait = IF @ = b THEN 0 ELSE @]]

RemoveAt(s, k) == [j \in 1..(Len(s) - 1) |-> IF j < k THEN s[j] ELSE s[j + 1]]

----------------------------------------------------------------------------
(* Steps of the stop cleanup *)

\* setTimeout(10) of the part-stop loop fires: stop the next part and wait
\* again, or run the tail of the cleanup up to the 50 ms wait.
PartStopTimer(b) ==
    /\ ~MicrotaskReady
    /\ phase.step = "idle"
    /\ am.bodies[b].pc = "stopLoop"
    /\ LET w == IF am.bodies[b].left > 0
                THEN [World EXCEPT !.am.bodies[b].left = @ - 1]
                ELSE CleanupTail(World, b)
       IN  am' = w.am /\ Tone' = w.Tone
    /\ UNCHANGED <<sa, saCount, stopWaiters, stopReq, sceneVars>>

\* setTimeout(50) fires: the finally block runs and the stop promise resolves.
FinalTimer(b) ==
    /\ ~MicrotaskReady
    /\ phase.step = "idle"
    /\ am.bodies[b].pc = "finalWait"
    /\ am' = [am EXCEPT !.audioStarted = FALSE,
                        !.stopPromise = 0,
                        !.bodies[b] = [pc |-> "free", left |-> 0]]
    /\ sa' = ResolveSa(sa, b)
    /\ starts' = ResolveStarts(starts, b)
    /\ stopWaiters' = ResolveWaiters(stopWaiters, b)
    /\ UNCHANGED <<Tone, saCount, stopReq, now, sc, pl, hz, hs, phase, hist>>

----------------------------------------------------------------------------
(* Steps of startAudio *)

\* startAudio resumes after `await this.stopAudio()`.
SaResume(i) ==
    /\ phase.step = "idle"
    /\ SaReady(i)
    /\ sa' = [sa EXCEPT ![i] = IF ~sa[i].hasMidi THEN SaDone(@, Null)
                               ELSE PollCheck(@)]
    /\ UNCHANGED <<am, Tone, saCount, stopWaiters, stopReq, sceneVars>>

\* setTimeout(100) of the polling loop fires.
SaPollTimer(i) ==
    /\ ~MicrotaskReady
    /\ phase.step = "idle"
    /\ sa[i].pc = "poll"
    /\ sa' = [sa EXCEPT ![i] = PollCheck([@ EXCEPT !.attempts = @ + 1])]
    /\ UNCHANGED <<am, Tone, saCount, stopWaiters, stopReq, sceneVars>>

\* Tone.start() settles: the context is running, is still suspended
\* (context.resume() is awaited next), or the call rejects (catch: null).
ToneStartSettles(i, outcome) ==
    /\ ~MicrotaskReady
    /\ phase.step = "idle"
    /\ sa[i].pc = "toneStart"
    /\ sa' = [sa EXCEPT ![i] =
                 CASE outcome = "running" -> [@ EXCEPT !.pc = "delay20"]
                   [] outcome = "suspended" -> [@ EXCEPT !.pc = "resume"]
                   [] OTHER -> SaDone(@, Null)]
    /\ am' = IF outcome = "reject" THEN [am EXCEPT !.audioStarted = FALSE]
             ELSE am
    /\ UNCHANGED <<Tone, saCount, stopWaiters, stopReq, sceneVars>>

\* context.resume() settles.
ResumeSettles(i, ok) ==
    /\ ~MicrotaskReady
    /\ phase.step = "idle"
    /\ sa[i].pc = "resume"
    /\ sa' = [sa EXCEPT ![i] = IF ok THEN [@ EXCEPT !.pc = "delay20"]
                               ELSE SaDone(@, Null)]
    /\ am' = IF ok THEN am ELSE [am EXCEPT !.audioStarted = FALSE]
    /\ UNCHANGED <<Tone, saCount, stopWaiters, stopReq, sceneVars>>

\* setTimeout(20) fires: synths and parts are created, the Transport starts.
Delay20Timer(i) ==
    /\ ~MicrotaskReady
    /\ phase.step = "idle"
    /\ sa[i].pc = "delay20"
    /\ LET c == CreateVoices(sa[i])
       IN  /\ am' = c.am
           /\ Tone' = c.Tone
           /\ sa' = [sa EXCEPT ![i] = c.rec]
    /\ UNCHANGED <<saCount, stopWaiters, stopReq, sceneVars>>

\* The Tone.js script finishes loading; followed while a start polls for it.
ToneLoads ==
    /\ ~MicrotaskReady
    /\ phase.step = "idle"
    /\ ~Tone.loaded
    /\ \E i \in SaIds : sa[i].pc = "poll"
    /\ Tone' = [Tone EXCEPT !.loaded = TRUE]
    /\ UNCHANGED <<am, sa, saCount, stopWaiters, stopReq, sceneVars>>

----------------------------------------------------------------------------
(* RunnerScene *)

\* The score the loader and the Event Builder deliver when the load succeeds.
ScoreEvents == <<[timeSec |-> 250, laneRow |-> 1],
                 [timeSec |-> 1000, laneRow |-> 0]>>
ScoreBeatMs == 500
ScoreBPM == 120
ScoreDurationMs == 1250

EmptyTrack == <<>>

\* loadMIDIFile's promise settles: the score is parsed and buildMIDIEvents
\* runs, or the load failed.
MidiLoadSettles(ok) ==
    /\ ~MicrotaskReady
    /\ phase.step = "idle"
    /\ sc.midiLoad = "pending"
    /\ sc' = IF ok
             THEN [sc EXCEPT !.midiLoad = "settled", !.midiData = TRUE,
                             !.events = ScoreEvents, !.nextIndex = 0,
                             !.trackBPM = ScoreBPM,
                             !.secondsPerBeat = ScoreBeatMs,
                             !.songDuration = ScoreDurationMs]
             ELSE [sc EXCEPT !.midiLoad = "settled", !.midiData = FALSE,
                             !.events = EmptyTrack, !.nextIndex = 0]
    /\ UNCHANGED <<audioVars, starts, pl, hz, hs, phase, hist, now>>

\* create(): managers, track state, game state
Create ==
    /\ ~MicrotaskReady
    /\ ~sc.created
    /\ sc' = [sc EXCEPT !.created = TRUE,
                        !.trackStartMs = Null,
                        !.songDuration = 0,
                        !.songCompleted = FALSE,
                        !.trackBPM = IF @ = 0 THEN DefaultBPM ELSE @,
                        !.secondsPerBeat = IF sc.trackBPM = 0
                                           THEN DefaultBeatMs ELSE @,
                        !.isDead = FALSE,
                        !.isRunning = FALSE,
                        !.isStarting = FALSE,
                        !.greenScore = 0]
    /\ am' = [am EXCEPT !.audioEnabled = sc.enableAudio]
    /\ UNCHANGED <<Tone, sa, saCount, stopWaiters, stopReq,
                   starts, pl, hz, hs, phase, hist, now>>

StartIdle == [pc |-> "none", wait |-> 0, sa |-> 0]

ActiveStarts == {i \in SaIds : starts[i].pc \notin {"none", "done"}}
StartCount == Cardinality({i \in SaIds : starts[i].pc # "none"})

\* startGame, line 240: a request made while a start is in progress returns
StartIgnored_Never(s) == FALSE

StartIgnored(s) == s.isStarting

\* pointerdown on the start label: ignored when Running or Dead, otherwise
\* startGame runs up to `await this.audioManager.stopAudio()`.
StartClick ==
    /\ ~MicrotaskReady
    /\ phase.step = "idle"
    /\ sc.created /\ ~sc.inMenu
    /\ ~(sc.isRunning \/ sc.isDead)
    /\ IF StartIgnored(sc)
       THEN /\ hist.ignored < MaxIgnored
            /\ hist' = [hist EXCEPT !.ignored = @ + 1]
            /\ UNCHANGED <<audioVars, sc, starts, pl, hz, hs, phase, now>>
       ELSE /\ StartCount < MaxStarts
            /\ CanStop(World)
            /\ LET r == stopAudio(World)
                   i == StartCount + 1
               IN  /\ am' = r.am
                   /\ Tone' = r.Tone
                   /\ starts' = [starts EXCEPT ![i] =
                         [pc |-> "awaitStop", wait |-> r.ret, sa |-> 0]]
            /\ sc' = [sc EXCEPT !.isStarting = TRUE]
            /\ stopReq' = Called("startGame")
            /\ hist' = [hist EXCEPT !.accepted = @ + 1]
            /\ UNCHANGED <<sa, saCount, stopWaiters, pl, hz, hs, phase, now>>

\* The reset section of startGame (lines 247-274)
ResetHazards_Skipped(h) == h

ResetHazards(h) == HazardClear(h)

\* startGame resumes after the awaited stop: reset, then it awaits the
\* score-load promise.
StartAfterStop(i) ==
    /\ phase.step = "idle"
    /\ starts[i].pc = "awaitStop" /\ starts[i].wait = 0
    /\ sc' = [sc EXCEPT !.isRunning = FALSE,
                        !.isDead = FALSE,
                        !.greenScore = 0,
                        !.nextIndex = 0,
                        !.songCompleted = FALSE]
    /\ pl' = PlayerReset(pl, getCenterRow, getCenterColumn)
    /\ hz' = ResetHazards(hz)
    /\ hs' = HotspotReset(hs)
    /\ starts' = [starts EXCEPT ![i].pc = "awaitMidi"]
    /\ hist' = [hist EXCEPT !.resets = @ + 1]
    /\ UNCHANGED <<audioVars, phase, now>>

\* The end of startGame: the clock base, isRunning, and the finally block.
\* audioStartTime is a reading of the audio clock.
StartTail_NoOffset(s, audioStartTime) ==
    [s EXCEPT !.trackStartMs = now,
              !.isRunning = TRUE,
              !.isStarting = FALSE]

StartTail(s, audioStartTime) ==
    [s EXCEPT !.trackStartMs = IF audioStartTime # Null /\ Tone.loaded
                               THEN now + (audioStartTime - ToneNow)
                               ELSE now,
              !.isRunning = TRUE,
              !.isStarting = FALSE]

\* startGame, line 286: startAudio is attempted
AudioWanted_Never(a, s) == FALSE

AudioWanted(a, s) == a.audioEnabled /\ s.midiData

\* startGame resumes after the score-load promise: startAudio is called
\* when audio is enabled and a score is present, else the run starts.
StartAfterMidi(i) ==
    /\ phase.step = "idle"
    /\ starts[i].pc = "awaitMidi" /\ sc.midiLoad = "settled"
    /\ IF AudioWanted(am, sc)
       THEN /\ CanStop(World)
            /\ LET r == startAudio(World, TRUE, 1)
               IN  /\ am' = r.am
                   /\ Tone' = r.Tone
                   /\ sa' = [sa EXCEPT ![saCount + 1] = r.rec]
            /\ saCount' = saCount + 1
            /\ starts' = [starts EXCEPT ![i].pc = "awaitAudio",
                                        ![i].sa = saCount + 1]
            /\ stopReq' = Called("startAudio")
            /\ UNCHANGED <<stopWaiters, sc, pl, hz, hs, phase, hist, now>>
       ELSE /\ sc' = StartTail(sc, Null)
            /\ starts' = [starts EXCEPT ![i].pc = "done"]
            /\ hist' = [hist EXCEPT !.toRunning = @ + 1]
            /\ UNCHANGED <<audioVars, pl, hz, hs, phase, now>>

\* startGame resumes after startAudio settled.
StartAfterAudio(i) ==
    /\ phase.step = "idle"
    /\ starts[i].pc = "awaitAudio" /\ sa[starts[i].sa].pc = "done"
    /\ sc' = StartTail(sc, sa[starts[i].sa].res)
    /\ starts' = [starts EXCEPT ![i].pc = "done"]
    /\ hist' = [hist EXCEPT !.toRunning = @ + 1]
    /\ UNCHANGED <<audioVars, pl, hz, hs, phase, now>>

\* getTrackTimeSec, in ms: 0 while trackStartMs is null (or 0)
getTrackTimeSec(s) ==
    IF s.trackStartMs = Null \/ s.trackStartMs = 0 THEN 0
    ELSE now - s.trackStartMs

\* The state update() and the handlers it calls work on.
Here == [sc |-> sc, pl |-> pl, hz |-> hz, hs |-> hs, am |-> am, Tone |-> Tone,
         stopReq |-> stopReq, stopWaiters |-> stopWaiters]

\* this.audioManager.stopAudio() by caller c, the promise dropped
StopBy(S, c) ==
    LET r == stopAudio([am |-> S.am, Tone |-> S.Tone])
    IN  [S EXCEPT !.am = r.am, !.Tone = r.Tone,
                  !.stopReq = [@ EXCEPT ![c] = @ + 1]]

\* returnToMenu up to `await this.audioManager.stopAudio()`
returnToMenu(S) ==
    LET r == stopAudio([am |-> S.am, Tone |-> S.Tone])
    IN  [S EXCEPT !.am = r.am, !.Tone = r.Tone,
                  !.stopReq = [@ EXCEPT !["menu"] = @ + 1],
                  !.stopWaiters = Append(@, [who |-> "menu", wait |-> r.ret])]

handleSongComplete(S) ==
    IF S.sc.songCompleted \/ S.sc.isDead THEN S
    ELSE LET S1 == StopBy(S, "complete")
         IN  [S1 EXCEPT !.sc.songCompleted = TRUE,
                        !.sc.isRunning = FALSE,
                        !.sc.menuCalls = @ \cup {now + MenuDelayMs}]

handlePlayerHit_NoGuard(S) ==
    LET S1 == StopBy(S, "hit")
    IN  [S1 EXCEPT !.sc.isDead = TRUE,
                   !.sc.isRunning = FALSE,
                   !.sc.deathTweenAt = now + DeathTweenMs]

handlePlayerHit(S) ==
    IF S.sc.isDead THEN S
    ELSE LET S1 == StopBy(S, "hit")
         IN  [S1 EXCEPT !.sc.isDead = TRUE,
                        !.sc.isRunning = FALSE,
                        !.sc.deathTweenAt = now + DeathTweenMs]

triggerGridDeath(S) == IF S.sc.isDead THEN S ELSE handlePlayerHit(S)

\* The dispatch loop: events due at t + lookahead are spawned in order.
\* offs[k], sides[k]: the random jitter and side of the k-th spawn of the frame.
RECURSIVE Dispatch(_, _, _, _, _)
Dispatch(S, t, k, offs, sides) ==
    IF /\ S.sc.nextIndex < Len(S.sc.events)
       /\ S.sc.events[S.sc.nextIndex + 1].timeSec <= t + LookaheadMs
    THEN Dispatch([S EXCEPT
                      !.hz = spawnHazardFromEvent(@,
                                S.sc.events[S.sc.nextIndex + 1],
                                offs[k], sides[k]),
                      !.sc.nextIndex = @ + 1],
                  t, k + 1, offs, sides)
    ELSE S

\* The completion check at the top of update (lines 343-356)
SongDone_AnyDuration(s) ==
    /\ s.isRunning
    /\ getTrackTimeSec(s) >= s.songDuration
    /\ ~s.songCompleted

SongDone(s) ==
    /\ s.isRunning
    /\ s.songDuration > 0
    /\ getTrackTimeSec(s) >= s.songDuration
    /\ ~s.songCompleted

\* The guard between the completion check and the gameplay work (line 358)
FrameSkipped_RunningUnchecked(s) == s.isDead \/ s.songCompleted

FrameSkipped(s) == s.isDead \/ ~s.isRunning \/ s.songCompleted

\* Step 1 of update (line 361): input
InputStep(S, dv, dh) == [S EXCEPT !.pl = handleInput(@, dv, dh)]

\* Step 2 (lines 364-377): the dispatch loop, when the track has events
DispatchStep_CursorKept(S, offs, sides) ==
    IF Len(S.sc.events) > 0
    THEN [Dispatch(S, getTrackTimeSec(S.sc), 1, offs, sides)
             EXCEPT !.sc.nextIndex = S.sc.nextIndex]
    ELSE S

DispatchStep_OnePerFrame(S, offs, sides) ==
    IF /\ S.sc.nextIndex < Len(S.sc.events)
       /\ S.sc.events[S.sc.nextIndex + 1].timeSec
            <= getTrackTimeSec(S.sc) + LookaheadMs
    THEN [S EXCEPT !.hz = spawnHazardFromEvent(@,
                             S.sc.events[S.sc.nextIndex + 1],
                             offs[1], sides[1]),
                   !.sc.nextIndex = @ + 1]
    ELSE S

DispatchStep(S, offs, sides) ==
    IF Len(S.sc.events) > 0
    THEN Dispatch(S, getTrackTimeSec(S.sc), 1, offs, sides)
    ELSE S

\* Step 3 (lines 386-390): beat-driven hotspots
HotspotStep(S) ==
    [S EXCEPT !.hs = updateHotspotsFromBeats(@, getTrackTimeSec(S.sc),
                        S.sc.trackBPM, S.sc.secondsPerBeat, now)]

\* Step 4 (lines 393-400): the player's cell against the hotspots
GreenStep_Kept(S) ==
    IF GreenHit(S.hs, S.pl.currentLaneIndex, S.pl.currentColumnIndex)
    THEN [S EXCEPT !.sc.greenScore = @ + 1]
    ELSE S

GreenStep(S) ==
    IF GreenHit(S.hs, S.pl.currentLaneIndex, S.pl.currentColumnIndex)
    THEN [S EXCEPT !.hs = clearGreenHotspot(@), !.sc.greenScore = @ + 1]
    ELSE S

RedStep(S) ==
    IF checkRedHotspots(S.hs, S.pl.currentLaneIndex, S.pl.currentColumnIndex)
    THEN triggerGridDeath(S)
    ELSE S

\* Step 5 (lines 403-410): hazard motion, then the collision callback
Collide_Unhandled(S, u) == [S EXCEPT !.hz = u.hz]

Collide(S, u) ==
    IF u.collisions # {} THEN handlePlayerHit([S EXCEPT !.hz = u.hz])
    ELSE [S EXCEPT !.hz = u.hz]

HazardStep(S, delta) == Collide(S, HazardUpdate(S.hz, delta, S.pl.sprite))

Gameplay(S, delta, dv, dh, offs, sides) ==
    HazardStep(RedStep(GreenStep(HotspotStep(
        DispatchStep(InputStep(S, dv, dh), offs, sides)))), delta)

\* update(time, delta): the completion check, the guard, the gameplay steps
AfterGuard_CompletedUnchecked(S, delta, dv, dh, offs, sides) ==
    IF S.sc.isDead \/ (~S.sc.isRunning /\ ~S.sc.songCompleted) THEN S
    ELSE Gameplay(S, delta, dv, dh, offs, sides)

AfterGuard(S, delta, dv, dh, offs, sides) ==
    IF FrameSkipped(S.sc) THEN S
    ELSE Gameplay(S, delta, dv, dh, offs, sides)

update(S, delta, dv, dh, offs, sides) ==
    AfterGuard(IF SongDone(S.sc) THEN handleSongComplete(S) ELSE S,
               delta, dv, dh, offs, sides)

Deltas == {250}            \* frame durations, ms
\* Freshly pressed keys of a frame: <<vertical, horizontal>>, at most one
Keys == {<<0, 0>>, <<-1, 0>>, <<1, 0>>, <<0, -1>>, <<0, 1>>}
Offsets == {0, LaneJitter}      \* values of Between(-laneJitter, laneJitter)

\* The number of events the dispatch loop of this frame will spawn
RECURSIVE DueCount(_, _, _)
DueCount(s, t, ix) ==
    IF ix < Len(s.events) /\ s.events[ix + 1].timeSec <= t + LookaheadMs
    THEN 1 + DueCount(s, t, ix + 1)
    ELSE 0

\* update() reaches its gameplay steps in this frame
FrameRuns == ~FrameSkipped(IF SongDone(sc)
                           THEN [sc EXCEPT !.songCompleted = TRUE,
                                           !.isRunning = FALSE]
                           ELSE sc)

SpawnIx == 1..(IF FrameRuns
               THEN DueCount(sc, getTrackTimeSec(sc), sc.nextIndex) ELSE 0)

FrameKeys == IF FrameRuns THEN Keys ELSE {<<0, 0>>}

RECURSIVE Times(_, _)
\* f applied n times: n delayed calls of returnToMenu that are due together
Times(S, n) == IF n = 0 THEN S ELSE Times(returnToMenu(S), n - 1)

\* The first half of a game-loop step: the clock advances by delta and the
\* scene's Clock and TweenManager fire what is due, before update() runs.
Tick(delta) ==
    /\ ~MicrotaskReady
    /\ phase.step = "idle"
    /\ sc.created /\ ~sc.inMenu
    /\ now + delta <= (IF hist.toRunning = 0 THEN MaxIdleNow ELSE MaxNow)
    /\ now' = now + delta
    /\ LET t == now + delta
           dueMenu == {m \in sc.menuCalls : m <= t}
           dueDeath == sc.deathTweenAt # Null /\ sc.deathTweenAt <= t
           S0 == [Here EXCEPT
                    !.pl = MoveTweenDone(@),
                    !.hs = HotspotTimers(@, t),
                    !.sc.restartVisible = (@ \/ dueDeath),
                    !.sc.deathTweenAt = IF dueDeath THEN Null ELSE @,
                    !.sc.menuCalls = @ \ dueMenu]
       IN  /\ dueMenu # {} => CanStop(World)
           /\ \E S1 \in {Times(S0, Cardinality(dueMenu))} :
                 /\ sc' = S1.sc /\ pl' = S1.pl /\ hs' = S1.hs
                 /\ am' = S1.am /\ Tone' = S1.Tone
                 /\ stopReq' = S1.stopReq /\ stopWaiters' = S1.stopWaiters
    /\ phase' = [step |-> "update", delta |-> delta]
    /\ UNCHANGED <<sa, saCount, starts, hz, hist>>

\* The second half of the step: scene.update(time, delta).
Update(dv, dh, offs, sides) ==
    /\ phase.step = "update"
    /\ CanStop(World)
    /\ \E S1 \in {update(Here, phase.delta, dv, dh, offs, sides)} :
           /\ sc' = S1.sc /\ pl' = S1.pl /\ hz' = S1.hz /\ hs' = S1.hs
           /\ am' = S1.am /\ Tone' = S1.Tone
           /\ stopReq' = S1.stopReq /\ stopWaiters' = S1.stopWaiters
    /\ phase' = [step |-> "idle", delta |-> 0]
    /\ UNCHANGED <<sa, saCount, starts, hist, now>>

\* pointerdown on the "Back to Menu" label shown after the death animation
RestartClick ==
    /\ ~MicrotaskReady
    /\ phase.step = "idle"
    /\ sc.restartVisible /\ ~sc.inMenu
    /\ hist.menuClicks < MaxMenuClicks
    /\ CanStop(World)
    /\ LET S1 == returnToMenu(Here)
       IN  /\ am' = S1.am /\ Tone' = S1.Tone
           /\ stopReq' = S1.stopReq /\ stopWaiters' = S1.stopWaiters
    /\ hist' = [hist EXCEPT !.menuClicks = @ + 1]
    /\ UNCHANGED <<sa, saCount, sc, starts, pl, hz, hs, phase, now>>

\* A caller suspended at `await stopAudio()` resumes: returnToMenu goes on to
\* this.scene.start('MenuScene'); the AudioManager's client is done.
WaiterResume(k) ==
    /\ phase.step = "idle"
    /\ k \in 1..Len(stopWaiters)
    /\ WaiterReady(k)
    /\ stopWaiters' = RemoveAt(stopWaiters, k)
    /\ sc' = IF stopWaiters[k].who = "menu" THEN [sc EXCEPT !.inMenu = TRUE]
             ELSE sc
    /\ UNCHANGED <<am, Tone, sa, saCount, stopReq,
                   starts, pl, hz, hs, phase, hist, now>>

----------------------------------------------------------------------------
(* The AudioManager's client, for the AudioManager on its own *)

ClientStop ==
    /\ ~MicrotaskReady
    /\ stopReq["client"] < MaxClientCalls
    /\ CanStop(World)
    /\ LET r == stopAudio(World)
       IN  /\ am' = r.am
           /\ Tone' = r.Tone
           /\ stopWaiters' = Append(stopWaiters,
                                    [who |-> "client", wait |-> r.ret])
    /\ stopReq' = Called("client")
    /\ UNCHANGED <<sa, saCount, sceneVars>>

ClientStart(hasMidi, ntracks) ==
    /\ ~MicrotaskReady
    /\ saCount < MaxStarts
    /\ CanStop(World)
    /\ LET r == startAudio(World, hasMidi, ntracks)
       IN  /\ am' = r.am
           /\ Tone' = r.Tone
           /\ sa' = [sa EXCEPT ![saCount + 1] = r.rec]
    /\ saCount' = saCount + 1
    /\ stopReq' = Called("startAudio")
    /\ UNCHANGED <<stopWaiters, sceneVars>>

----------------------------------------------------------------------------
(* The stop cleanup when a Tone.js call throws *)

\* The calls of the cleanup that can throw before its first await ...
SyncThrowPoints(w) ==
    (IF w.Tone.transport = "started" THEN {"transportStop"} ELSE {})
    \cup (IF Len(w.am.parts) > 0 THEN {"partStop"} ELSE {"cancel"})
    \cup (IF Len(w.am.parts) = 0 /\ Len(w.am.midiPlayers) > 0
          THEN {"synthDispose"} ELSE {})

\* ... and when it resumes after a 10 ms wait of the part-stop loop.
LateThrowPoints(w, b) ==
    IF w.am.bodies[b].left > 0 THEN {"partStop"}
    ELSE {"cancel", "partDispose"}
         \cup (IF Len(w.am.midiPlayers) > 0 THEN {"synthDispose"} ELSE {})

\* Cleanup b throws at the call `at` (the first dispose of a loop, for the
\* dispose calls): what ran before it, the catch, and the finally block.
Thrown(w, b, at) ==
    LET w1 == IF at = "transportStop" THEN w
              ELSE [w EXCEPT !.Tone.transport = "stopped"]
        w2 == IF at = "synthDispose"
              THEN [w1 EXCEPT !.Tone.partDisposed = Bump(@, w1.am.parts),
                              !.am.parts = <<>>]
              ELSE w1
    IN  [w2 EXCEPT !.am.audioStarted = FALSE,
                   !.am.stopPromise = 0,
                   !.am.bodies[b] = [pc |-> "free", left |-> 0]]

\* stopAudio() when the cleanup throws before its first await: the catch and
\* the finally block run inside the call of the async function, and the
\* assignment of line 37 then stores the promise, which is already resolved.
ClientStopThrows(at) ==
    /\ ~MicrotaskReady
    /\ stopReq["client"] < MaxClientCalls
    /\ Tone.loaded
    /\ am.stopPromise = 0
    /\ \E b \in BodyIds : am.bodies[b].pc = "free"
    /\ at \in SyncThrowPoints(World)
    /\ LET b == FreeBody(am)
           w == Thrown([World EXCEPT !.am.audioStarted = FALSE], b, at)
       IN  /\ am' = [w.am EXCEPT !.stopPromise = b]
           /\ Tone' = w.Tone
    /\ stopWaiters' = Append(stopWaiters, [who |-> "client", wait |-> 0])
    /\ stopReq' = Called("client")
    /\ UNCHANGED <<sa, saCount, sceneVars>>

\* setTimeout(10) of the part-stop loop fires and the cleanup throws: the
\* catch and the finally block run and the stop promise resolves.
CleanupThrows(b, at) ==
    /\ ~MicrotaskReady
    /\ am.bodies[b].pc = "stopLoop"
    /\ at \in LateThrowPoints(World, b)
    /\ LET w == Thrown(World, b, at)
       IN  am' = w.am /\ Tone' = w.Tone
    /\ sa' = ResolveSa(sa, b)
    /\ starts' = ResolveStarts(starts, b)
    /\ stopWaiters' = ResolveWaiters(stopWaiters, b)
    /\ UNCHANGED <<saCount, stopReq, now, sc, pl, hz, hs, phase, hist>>

ThrowPoints == {"transportStop", "partStop", "cancel", "partDispose",
                "synthDispose"}

----------------------------------------------------------------------------

AudioStep ==
    \/ \E b \in BodyIds : PartStopTimer(b) \/ FinalTimer(b)
    \/ \E i \in SaIds : SaResume(i) \/ Delay20Timer(i)
    \/ \E i \in SaIds : \E o \in {"running", "suspended", "reject"} :
          ToneStartSettles(i, o)
    \/ \E i \in SaIds : \E ok \in BOOLEAN : ResumeSettles(i, ok)

\* Steps that occur only while window.Tone is missing
ToneStep ==
    \/ \E i \in SaIds : SaPollTimer(i)
    \/ ToneLoads


----------------------------------------------------------------------------
(* Initial states *)

InitAudioManager(loaded) ==
    /\ am = [audioEnabled |-> FALSE, audioStarted |-> FALSE,
             midiPlayers |-> <<>>, parts |-> <<>>, stopPromise |-> 0,
             bodies |-> [b \in BodyIds |-> [pc |-> "free", left |-> 0]]]
    /\ Tone = [loaded |-> loaded, transport |-> "stopped", nextObj |-> 1,
               partDisposed |-> [o \in ObjIds |-> 0],
               synthDisposed |-> [o \in ObjIds |-> 0]]
    /\ sa = [i \in SaIds |-> SaIdle]
    /\ saCount = 0
    /\ stopWaiters = <<>>
    /\ stopReq = [c \in Callers |-> 0]

\* The scene's fields after init() and preload() of its first visit: the
\* score load is in flight.
SceneFields(enableAudio) ==
    [created |-> FALSE, enableAudio |-> enableAudio,
     isDead |-> FALSE, isRunning |-> FALSE, isStarting |-> FALSE,
     songCompleted |-> FALSE, greenScore |-> 0,
     midiData |-> FALSE, midiLoad |-> "pending",
     events |-> EmptyTrack, nextIndex |-> 0,
     trackBPM |-> 0, secondsPerBeat |-> 0, songDuration |-> 0,
     trackStartMs |-> Null, inMenu |-> FALSE,
     restartVisible |-> FALSE, deathTweenAt |-> Null,
     menuCalls |-> {}]

\* The same after init() and preload() of a later visit (MenuScene starts
\* the scene again, on the same object): the fields that neither init() nor
\* preload() assigns keep the values of the earlier visit, whose score had
\* loaded.  create() goes on to reset the others.
Revisited(s) ==
    [s EXCEPT !.midiData = TRUE,
              !.trackBPM = PrevBPM,
              !.secondsPerBeat = PrevBeatMs]

\* new HotspotManager(scene, gridManager, { greenEveryBeats, ... })
NewHotspotManager(greenEveryBeats) ==
    [greenHotspot |-> NoCell, greenActive |-> FALSE,
     greenArmAt |-> Null, redHotspots |-> <<>>,
     lastBeatTime |-> -1, lastSubdivTime |-> -1,
     greenEveryBeats |-> greenEveryBeats]

InitFrame ==
    /\ starts = [i \in SaIds |-> StartIdle]
    /\ pl = [currentLaneIndex |-> getCenterRow,
             currentColumnIndex |-> getCenterColumn,
             sprite |-> [row |-> getCenterRow, col |-> getCenterColumn],
             moveTween |-> NoCell]
    /\ hz = [activeHazards |-> <<>>, sideAlternator |-> FALSE]
    /\ phase = [step |-> "idle", delta |-> 0]
    /\ hist = [accepted |-> 0, ignored |-> 0, resets |-> 0,
               toRunning |-> 0, menuClicks |-> 0, lags |-> 0]
    /\ now = StartNow

InitRest == InitFrame /\ hs = NewHotspotManager(GreenEveryBeats)

InitScene(enableAudio) == sc = SceneFields(enableAudio) /\ InitRest

Init == \E l \in BOOLEAN, e \in BOOLEAN : InitAudioManager(l) /\ InitScene(e)

\* A first or a later visit of the scene.
InitVisit ==
    \E l \in BOOLEAN, e \in BOOLEAN, again \in BOOLEAN :
        /\ InitAudioManager(l)
        /\ sc = IF again THEN Revisited(SceneFields(e)) ELSE SceneFields(e)
        /\ InitRest

\* The AudioManager on its own is followed with Tone.js present.
InitAudio == InitAudioManager(TRUE) /\ InitScene(TRUE)

----------------------------------------------------------------------------
(* Specifications *)

SceneStep ==
    \/ Create
    \/ \E ok \in BOOLEAN : MidiLoadSettles(ok)
    \/ StartClick
    \/ \E i \in SaIds : StartAfterStop(i) \/ StartAfterMidi(i)
                            \/ StartAfterAudio(i)
    \/ \E d \in Deltas : Tick(d)
    \/ RestartClick
    \/ \E k \in 1..MaxStarts + MaxMenuClicks : WaiterResume(k)

Next ==
    \/ SceneStep
    \/ AudioStep
    \/ ToneStep
    \/ \E k \in FrameKeys :
         \E offs \in [SpawnIx -> Offsets], sides \in [SpawnIx -> BOOLEAN] :
            Update(k[1], k[2], offs, sides)

Spec == Init /\ [][Next]_vars

\* The AudioManager under an arbitrary client.
NextAudio ==
    \/ ClientStop
    \/ \E m \in BOOLEAN : \E n \in 1..MaxTracks : ClientStart(m, n)
    \/ \E k \in 1..MaxClientCalls : WaiterResume(k)
    \/ AudioStep

SpecAudio == InitAudio /\ [][NextAudio]_vars

\* The same, with Tone.js calls of the stop cleanup that may throw.
NextStopErr ==
    \/ NextAudio
    \/ \E at \in ThrowPoints : ClientStopThrows(at)
    \/ \E b \in BodyIds : \E at \in ThrowPoints : CleanupThrows(b, at)

SpecStopErr == InitAudio /\ [][NextStopErr]_vars

\* A start on its own: the scene from its construction, with frames in which
\* no key is pressed and every spawn comes from the left without jitter, so
\* that a run can only end by completing and a second start follows it.
StillFrame ==
    Update(0, 0, [k \in SpawnIx |-> 0], [k \in SpawnIx |-> TRUE])

NextStart ==
    \/ Create
    \/ \E ok \in BOOLEAN : MidiLoadSettles(ok)
    \/ StartClick
    \/ \E i \in SaIds : StartAfterStop(i) \/ StartAfterMidi(i)
                            \/ StartAfterAudio(i)
    \/ \E d \in Deltas : Tick(d)
    \/ StillFrame
    \/ AudioStep
    \/ ToneStep

\* What the event loop and the proviso of the start contract guarantee: a
\* timer that is set fires, a ready continuation runs, an awaited external
\* operation (the score load, Tone.start(), context.resume()) settles.
StartProgress ==
    \/ \E b \in BodyIds : PartStopTimer(b) \/ FinalTimer(b)
    \/ \E i \in SaIds : SaResume(i) \/ SaPollTimer(i) \/ Delay20Timer(i)
    \/ \E i \in SaIds : \E o \in {"running", "suspended", "reject"} :
          ToneStartSettles(i, o)
    \/ \E i \in SaIds : \E ok \in BOOLEAN : ResumeSettles(i, ok)
    \/ \E i \in SaIds : StartAfterStop(i) \/ StartAfterMidi(i)
                            \/ StartAfterAudio(i)
    \/ \E ok \in BOOLEAN : MidiLoadSettles(ok)

\* ... and the second half of a game-loop step follows the first at once.
StartFairness ==
    /\ WF_vars(StartProgress)
    /\ []<>(phase.step = "idle")

SpecStart == InitVisit /\ [][NextStart]_vars /\ StartFairness

\* The same steps with, now and then, a long frame (the page was in the
\* background), in which several events of the score fall due together.
NextDispatch ==
    \/ NextStart
    \/ Tick(LagDelta)

SpecDispatch == Init /\ [][NextDispatch]_vars

\* The HotspotManager on its own, in a run without a score (which has no
\* hazards and does not complete), followed beyond the life of a red
\* hotspot.  A game-loop step is HsTick and HsUpdate; a long frame is HsTick
\* and HsNoUpdate, once or more, and then HsTick and HsUpdate.

\* The clock advances and the activation tweens and expireEvents due fire.
HsTick(delta) ==
    /\ phase.step = "idle"
    /\ now + delta <= MaxLongNow
    /\ now' = now + delta
    /\ hs' = HotspotTimers(hs, now + delta)
    /\ phase' = [step |-> "update", delta |-> delta]
    /\ UNCHANGED <<audioVars, sc, starts, pl, hz, hist>>

\* Steps 3 and 4 of update() with the player on (lane, column)
HsUpdate(lane, column) ==
    /\ phase.step = "update"
    /\ \E g \in {updateHotspotsFromBeats(hs, getTrackTimeSec(sc), sc.trackBPM,
                                          sc.secondsPerBeat, now)} :
          hs' = IF GreenHit(g, lane, column) THEN clearGreenHotspot(g) ELSE g
    /\ phase' = [step |-> "idle", delta |-> 0]
    /\ UNCHANGED <<audioVars, sc, starts, pl, hz, hist, now>>

\* No update() for this advance of the clock: it is the first part of a
\* long frame.
HsNoUpdate ==
    /\ phase.step = "update"
    /\ hist.lags < MaxLags
    /\ phase' = [step |-> "idle", delta |-> 0]
    /\ hist' = [hist EXCEPT !.lags = @ + 1]
    /\ UNCHANGED <<audioVars, sc, starts, pl, hz, hs, now>>

\* startGame's reset: hotspotManager.reset(), and a new clock base
HsReset ==
    /\ phase.step = "idle"
    /\ hist.resets < MaxHsResets
    /\ hs' = HotspotReset(hs)
    /\ sc' = [sc EXCEPT !.trackStartMs = now]
    /\ hist' = [hist EXCEPT !.resets = @ + 1]
    /\ UNCHANGED <<audioVars, starts, pl, hz, phase, now>>

\* Values of greenEveryBeats: the default, and 1 from the stage editor
BeatPeriods == {GreenEveryBeats, EveryBeat}

InitHotspots ==
    /\ InitAudioManager(FALSE)
    /\ sc = [SceneFields(FALSE) EXCEPT !.created = TRUE,
                                       !.midiLoad = "settled",
                                       !.trackBPM = DefaultBPM,
                                       !.secondsPerBeat = DefaultBeatMs,
                                       !.isRunning = TRUE,
                                       !.trackStartMs = StartNow]
    /\ InitFrame
    /\ \E every \in BeatPeriods : hs = NewHotspotManager(every)

NextHotspots ==
    \/ \E d \in Deltas : HsTick(d)
    \/ \E r \in 0..(Rows - 1), c \in 0..(Cols - 1) : HsUpdate(r, c)
    \/ HsNoUpdate
    \/ HsReset

SpecHotspots == InitHotspots /\ [][NextHotspots]_vars

----------------------------------------------------------------------------
(* The Event Builder: mapPitchToLane and buildMIDIEvents.  Times are in ms,
   velocities in hundredths, a density is a fraction <<num, den>>. *)

\* mapPitchToLane(midiValue, config)
mapPitchToLane_Unclamped(midiValue, config) ==
    LET rows == Max(3, Min(5, IF config.gridRows = 0 THEN 3
                              ELSE config.gridRows))
        minPitch == Min(config.lowCut, config.highCut)
        maxPitch == Max(config.lowCut, config.highCut)
        range == Max(1, maxPitch - minPitch)
        laneFromTop == Min(rows - 1, ((midiValue - minPitch) * rows) \div range)
    IN  (rows - 1) - laneFromTop

mapPitchToLane(midiValue, config) ==
    LET rows == Max(3, Min(5, IF config.gridRows = 0 THEN 3
                              ELSE config.gridRows))
        minPitch == Min(config.lowCut, config.highCut)
        maxPitch == Max(config.lowCut, config.highCut)
        clamped == Max(minPitch, Min(maxPitch, midiValue))
        range == Max(1, maxPitch - minPitch)
        laneFromTop == Min(rows - 1, ((clamped - minPitch) * rows) \div range)
    IN  (rows - 1) - laneFromTop

\* Lines 29-37: the index of the selected track, clamped
TrackIndex(midiData, config) ==
    Max(0, Min(config.trackIndex, Len(midiData.tracks) - 1))

\* midiData.tracks[trackIndex] is undefined
NoSuchTrack(midiData, config) ==
    /\ config.trackIndex # -1
    /\ TrackIndex(midiData, config) + 1 \notin 1..Len(midiData.tracks)

SelectTracks(midiData, config) ==
    IF config.trackIndex = -1 THEN midiData.tracks
    ELSE <<midiData.tracks[TrackIndex(midiData, config) + 1]>>

\* Lines 40-45
BuilderBPM(midiData, config) ==
    IF Len(midiData.tempos) > 0 /\ config.bpmOverride = 0
    THEN midiData.tempos[1]
    ELSE IF config.bpmOverride > 0 THEN config.bpmOverride ELSE 120

BeatMsOf(bpm) == 60000 \div bpm

\* Lines 55-58: Math.round(timeSec / quantizeUnit) * quantizeUnit
Quantized(timeMs, beatMs, config) ==
    IF config.quantizeDiv > 0
    THEN (((2 * timeMs * config.quantizeDiv + beatMs) \div (2 * beatMs))
              * beatMs) \div config.quantizeDiv
    ELSE timeMs

\* Lines 50-78: the event of a note
NoteEvent(note, beatMs, config) ==
    [timeSec |-> Quantized(note.time, beatMs, config),
     laneRow |-> mapPitchToLane(note.midi, config),
     hazardType |-> IF note.velocity > 66 THEN 2
                    ELSE IF note.velocity > 33 THEN 1 ELSE 0,
     pitch |-> note.midi,
     velocity |-> note.velocity]

RECURSIVE TrackEvents(_, _, _)
TrackEvents(notes, beatMs, config) ==
    IF notes = <<>> THEN <<>>
    ELSE (IF Head(notes).velocity < config.velocityMin THEN <<>>
          ELSE <<NoteEvent(Head(notes), beatMs, config)>>)
         \o TrackEvents(Tail(notes), beatMs, config)

RECURSIVE Collect(_, _, _)
Collect(tracks, beatMs, config) ==
    IF tracks = <<>> THEN <<>>
    ELSE TrackEvents(Head(tracks), beatMs, config)
         \o Collect(Tail(tracks), beatMs, config)

\* Line 83: events.sort((a, b) => a.timeSec - b.timeSec), a stable sort
RECURSIVE InsertByTime(_, _)
InsertByTime(sorted, e) ==
    IF sorted = <<>> THEN <<e>>
    ELSE IF Head(sorted).timeSec <= e.timeSec
         THEN <<Head(sorted)>> \o InsertByTime(Tail(sorted), e)
         ELSE <<e>> \o sorted

SortByTime_Unsorted(events) == events

RECURSIVE SortByTime(_)
SortByTime(events) ==
    IF events = <<>> THEN <<>>
    ELSE InsertByTime(SortByTime(SubSeq(events, 1, Len(events) - 1)),
                      events[Len(events)])

\* Math.round(1 / density) for a density num/den in (0, 1)
RoundedStep(density) ==
    (2 * density[2] + density[1]) \div (2 * density[1])

Thins(density) == density[1] > 0 /\ density[1] < density[2]

\* Lines 86-101: the events at the indices i with i % Math.round(step) === 0
RECURSIVE KeepEvery(_, _, _)
KeepEvery(events, step, i) ==
    IF events = <<>> THEN <<>>
    ELSE (IF i % step = 0 THEN <<Head(events)>> ELSE <<>>)
         \o KeepEvery(Tail(events), step, i + 1)

DensityFilter_FromOne(events, config) ==
    IF Thins(config.density)
    THEN KeepEvery(events, RoundedStep(config.density), 1)
    ELSE events

DensityFilter(events, config) ==
    IF Thins(config.density)
    THEN KeepEvery(events, RoundedStep(config.density), 0)
    ELSE events

\* evt.timeSec - lastTime >= 1 / maxEventsPerSec
GapEnough(gapMs, maxEventsPerSec) == gapMs * maxEventsPerSec >= 1000

\* Lines 104-116: the loop of the cap, lastTime being the last kept time
RECURSIVE CapLoop_AnyGap(_, _, _)
CapLoop_AnyGap(events, lastTime, maxEventsPerSec) ==
    IF events = <<>> THEN <<>>
    ELSE <<Head(events)>>
           \o CapLoop_AnyGap(Tail(events), Head(events).timeSec,
                             maxEventsPerSec)

RECURSIVE CapLoop(_, _, _)
CapLoop(events, lastTime, maxEventsPerSec) ==
    IF events = <<>> THEN <<>>
    ELSE IF \/ GapEnough(Head(events).timeSec - lastTime, maxEventsPerSec)
            \/ lastTime < 0
         THEN <<Head(events)>>
                \o CapLoop(Tail(events), Head(events).timeSec, maxEventsPerSec)
         ELSE CapLoop(Tail(events), lastTime, maxEventsPerSec)

RateCap(events, config) ==
    IF config.maxEventsPerSec > 0
    THEN CapLoop(events, -1000, config.maxEventsPerSec)
    ELSE events

\* Lines 124-133
SongDurationOf(events, midiData) ==
    IF Len(events) > 0 THEN events[Len(events)].timeSec + 2000
    ELSE IF midiData.duration # Null THEN midiData.duration
    ELSE 0

Threw == [built |-> TRUE, threw |-> TRUE, events |-> <<>>, bpm |-> 0,
          secondsPerBeat |-> 0, songDuration |-> 0]

\* buildMIDIEvents(midiData, config): the returned track, or the TypeError
\* of `track.notes` on an undefined track
buildMIDIEvents(midiData, config) ==
    IF midiData = NoScore
    THEN [built |-> TRUE, threw |-> FALSE, events |-> <<>>, bpm |-> 120,
          secondsPerBeat |-> 500, songDuration |-> 0]
    ELSE LET bpm == BuilderBPM(midiData, config)
             events == RateCap(DensityFilter(SortByTime(
                          Collect(SelectTracks(midiData, config),
                                  BeatMsOf(bpm), config)), config), config)
         IN  IF NoSuchTrack(midiData, config) THEN Threw
             ELSE [built |-> TRUE, threw |-> FALSE, events |-> events,
                   bpm |-> bpm,
                   secondsPerBeat |-> BeatMsOf(bpm),
                   songDuration |-> SongDurationOf(events, midiData)]

\* The notes of the scores
ScoreNotes ==
    {[time |-> 0, midi |-> 60, velocity |-> 80],
     [time |-> 0, midi |-> 72, velocity |-> 50],
     [time |-> 300, midi |-> 55, velocity |-> 20],
     [time |-> 600, midi |-> 64, velocity |-> 90]}

NotesUpTo(n) == UNION {[1..k -> ScoreNotes] : k \in 0..n}

\* The time of the last note of a score: its duration as parsed
LastTime(tracks) ==
    LET times == {0} \cup UNION {{tracks[i][j].time : j \in 1..Len(tracks[i])} :
                                    i \in 1..Len(tracks)}
    IN  CHOOSE t \in times : \A u \in times : u <= t

\* The parsed scores: no track, one track, or two
ScoreTracks ==
    {<<>>} \cup {<<a>> : a \in NotesUpTo(MaxNotes)}
           \cup {<<a, b>> : a \in NotesUpTo(MaxNotes),
                            b \in NotesUpTo(MaxNotes2)}

MidiScores ==
    {NoScore} \cup
    {[tracks |-> t, tempos |-> m, duration |-> LastTime(t)] :
        t \in ScoreTracks, m \in {<<>>, <<ScoreTempo>>}}

\* stageConfig.params, as far as the builder reads them
Params ==
    [trackIndex : {-1, 0, 3},
     bpmOverride : {0, PrevBPM},
     quantizeDiv : {0, 2},
     velocityMin : {0, 50},
     maxEventsPerSec : {0, 2, LargeCap},
     density : {<<1, 1>>, <<1, 2>>, <<2, 5>>, <<0, 1>>},
     lowCut : {55}, highCut : {70}, gridRows : {3}]

\* RunnerScene.buildMIDIEvents: the builder applied to the loaded score
BuildEvents ==
    /\ ~sc.track.built
    /\ sc' = [sc EXCEPT !.track = buildMIDIEvents(sc.midiData, sc.params)]
    /\ UNCHANGED <<audioVars, starts, pl, hz, hs, phase, hist, now>>

InitBuilder ==
    /\ InitAudioManager(FALSE)
    /\ InitRest
    /\ \E m \in MidiScores, c \in Params :
          sc = [midiData |-> m, params |-> c, track |-> NoTrack]

NextBuilder == BuildEvents

SpecBuilder == InitBuilder /\ [][NextBuilder]_vars

\* mapPitchToLane on its own: a pitch and the three parameters it reads
Pitches == 0..127
CutValues == {0, 55, 60, 61, 70, 127}
GridRowValues == {0, 3, 4, 5, 7}     \* 0: gridRows is not set

MapPitch ==
    /\ sc.laneRow = Null
    /\ sc' = [sc EXCEPT !.laneRow = mapPitchToLane(sc.midi, sc.params)]
    /\ UNCHANGED <<audioVars, starts, pl, hz, hs, phase, hist, now>>

InitPitch ==
    /\ InitAudioManager(FALSE)
    /\ InitRest
    /\ \E m \in Pitches, lo \in CutValues, hi \in CutValues,
          rows \in GridRowValues :
          sc = [midi |-> m, laneRow |-> Null,
                params |-> [lowCut |-> lo, highCut |-> hi, gridRows |-> rows]]

NextPitch == MapPitch

SpecPitch == InitPitch /\ [][NextPitch]_vars

\* getCellFromBeatIndex on its own: a beat index and the two seeds, which the
\* stage editor reads as any integers
BeatIndexes == (0 - 2)..MaxBeatIndex
SeedValues == {0 - SeedA, 0 - SeedB, 0, 1, SeedB, SeedA}

CellFromBeat ==
    /\ sc.cell = NoCell
    /\ sc' = [sc EXCEPT !.cell = getCellFromBeatIndex(sc.beatIndex,
                                                       sc.seedA, sc.seedB)]
    /\ UNCHANGED <<audioVars, starts, pl, hz, hs, phase, hist, now>>

InitCell ==
    /\ InitAudioManager(FALSE)
    /\ InitRest
    /\ \E b \in BeatIndexes, a \in SeedValues, c \in SeedValues :
          sc = [beatIndex |-> b, seedA |-> a, seedB |-> c, cell |-> NoCell]

NextCell == CellFromBeat

SpecCell == InitCell /\ [][NextCell]_vars

\* HazardManager.update on its own: a list of hazards anywhere on their
\* way, the sprite on a cell, and calls of update.
HazardXs == {SpawnLeftX, 89, 100, 825, 826, Width + 150,
             Width + SpawnMargin, Width + 180, 311, 300, 0 - 25, 0 - 26}
HazardYs == {LaneY(0), LaneY(1) + LaneJitter}

LiveHazards ==
    {[x |-> x, y |-> y, vx |-> v] :
        x \in HazardXs, y \in HazardYs, v \in {HazardSpeed, 0 - HazardSpeed}}

\* const collisions = this.hazardManager.update(delta, sprite)
HzUpdate(delta) ==
    /\ now + delta <= MaxHazNow
    /\ now' = now + delta
    /\ \E u \in {HazardUpdate(hz, delta, pl.sprite)} :
          /\ hz' = u.hz
          /\ sc' = [collisions |->
                       {u.hz.activeHazards[k] : k \in u.collisions}]
    /\ UNCHANGED <<audioVars, starts, pl, hs, phase, hist>>

InitHazards ==
    /\ InitAudioManager(FALSE)
    /\ starts = [i \in SaIds |-> StartIdle]
    /\ hs = NewHotspotManager(GreenEveryBeats)
    /\ phase = [step |-> "idle", delta |-> 0]
    /\ hist = [accepted |-> 0, ignored |-> 0, resets |-> 0,
               toRunning |-> 0, menuClicks |-> 0, lags |-> 0]
    /\ now = StartNow
    /\ sc = [collisions |-> {}]
    /\ \E r \in 0..(Rows - 1), c \in 0..(Cols - 1) :
          pl = [currentLaneIndex |-> r, currentColumnIndex |-> c,
                sprite |-> [row |-> r, col |-> c], moveTween |-> NoCell]
    /\ \E list \in UNION {[1..n -> LiveHazards] : n \in 0..MaxHazards} :
          hz = [activeHazards |-> list, sideAlternator |-> FALSE]

NextHazards == \E d \in Deltas : HzUpdate(d)

SpecHazards == InitHazards /\ [][NextHazards]_vars

----------------------------------------------------------------------------
(* Properties *)

\* C1: a start request made while a start is in progress is ignored: at most
\* one startGame call is in progress at any time, and every accepted request
\* performs exactly one reset and exactly one transition to Running.
C1_OneStart ==
    /\ Cardinality(ActiveStarts) <= 1
    /\ sc.isStarting <=> ActiveStarts # {}
    /\ hist.resets <= hist.accepted /\ hist.accepted <= hist.resets + 1
    /\ hist.toRunning <= hist.resets /\ hist.resets <= hist.toRunning + 1
    /\ ~sc.isStarting => /\ hist.resets = hist.accepted
                         /\ hist.toRunning = hist.accepted

\* A second request was made during Starting, and the run is Running after
\* one reset and one transition.
C1_Witness ==
    /\ hist.ignored >= 1
    /\ sc.isRunning
    /\ hist.accepted = 1 /\ hist.resets = 1 /\ hist.toRunning = 1

\* C2: at most one stop cleanup is in progress; a stopAudio call made while
\* one is pending waits on that one; no synth and no part is disposed twice.
C2_OneCleanup ==
    /\ Cardinality(RunningBodies(am)) <= 1
    /\ am.stopPromise # 0 => am.stopPromise \in RunningBodies(am)
    /\ \A k \in 1..Len(stopWaiters) :
          stopWaiters[k].wait # 0 => stopWaiters[k].wait = am.stopPromise
    /\ \A i \in SaIds : sa[i].wait # 0 => sa[i].wait = am.stopPromise
    /\ \A o \in ObjIds : Tone.partDisposed[o] <= 1 /\ Tone.synthDisposed[o] <= 1

\* Two callers wait on the same cleanup, which has disposed a synth and a part.
C2_Witness ==
    /\ \E j, k \in 1..Len(stopWaiters) :
          /\ j < k
          /\ stopWaiters[j].wait # 0
          /\ stopWaiters[j].wait = stopWaiters[k].wait
    /\ \E o \in ObjIds : Tone.partDisposed[o] = 1 /\ Tone.synthDisposed[o] = 1

\* The step of startAudio call i that creates the synths and parts and
\* starts the Transport
Creates(i) == sa[i].pc = "delay20" /\ sa'[i].pc = "done"

C4_RunningLast ==
    [][/\ (~sc.isRunning /\ sc'.isRunning) =>
             \E i \in SaIds :
                /\ starts[i].pc \in {"awaitMidi", "awaitAudio"}
                /\ starts'[i].pc = "done"
                /\ starts[i].wait = 0
                /\ hist.resets = hist.accepted
                /\ hist.resets = hist.toRunning + 1
                /\ sc.midiLoad = "settled"
                /\ (am.audioEnabled /\ sc.midiData) =>
                      /\ starts[i].pc = "awaitAudio"
                      /\ sa[starts[i].sa].pc = "done"
                /\ sc'.trackStartMs # Null
                /\ ~sc'.isStarting
       /\ (phase.step = "update" /\ sc.isStarting) =>
             /\ hz' = hz /\ hs' = hs /\ pl' = pl
             /\ sc'.nextIndex = sc.nextIndex
             /\ sc'.greenScore = sc.greenScore
      ]_vars

\* A run is Running with its audio started and its clock base assigned,
\* after frames that ran during Starting.
C4_Witness ==
    /\ sc.isRunning
    /\ am.audioStarted
    /\ sc.trackStartMs = now + AudioStartDelayMs
    /\ now > StartNow

\* The frame (the call of update) that this step is
Frame == phase.step = "update"

\* After the frame a live hazard is within the hit distance of the player's
\* sprite / the player's cell hosts a red hotspot whose arming has completed.
HazardNear ==
    \E k \in 1..Len(hz'.activeHazards) : Near(hz'.activeHazards[k], pl'.sprite)

OnArmedRed ==
    checkRedHotspots(hs', pl'.currentLaneIndex, pl'.currentColumnIndex)

\* The run is Dead at the end of the frame and the frame requested a stop.
DiedInFrame ==
    /\ sc'.isDead /\ ~sc'.isRunning
    /\ stopReq'["hit"] = stopReq["hit"] + 1

\* C5, as stated: every Running frame that ends with a hazard within 36 px
\* of the player or with the player on an armed red hotspot ends Dead, with
\* an audio stop requested.
C5_Original ==
    [][(Frame /\ sc.isRunning /\ (HazardNear \/ OnArmedRed)) => DiedInFrame]_vars

\* C5, amended: the same, for the Running frames in which the song does not
\* complete (the completion check comes first and ends the frame).
C5_DeadUnlessCompleted ==
    [][(Frame /\ sc.isRunning /\ ~sc'.songCompleted
          /\ (HazardNear \/ OnArmedRed)) => DiedInFrame]_vars

\* The run ended Dead with a hazard on the player's sprite.
C5_Witness ==
    /\ sc.isDead /\ ~sc.isRunning
    /\ stopReq["hit"] = 1
    /\ \E k \in 1..Len(hz.activeHazards) : Near(hz.activeHazards[k], pl.sprite)

\* C6: a frame completes the run exactly when the run is Running, not Dead,
\* songDuration > 0 and the elapsed time has reached it; the run then leaves
\* Running and an audio stop is requested; nothing else completes a run;
\* handleSongComplete changes nothing once Completed or Dead; a run whose
\* songDuration is 0 does not complete.
C6_Completion ==
    [][/\ Frame =>
             ((~sc.songCompleted /\ sc'.songCompleted) <=>
                 /\ sc.isRunning /\ ~sc.isDead
                 /\ sc.songDuration > 0
                 /\ getTrackTimeSec(sc) >= sc.songDuration)
       /\ ~Frame => (sc'.songCompleted => sc.songCompleted)
       /\ (~sc.songCompleted /\ sc'.songCompleted) =>
             /\ ~sc'.isRunning /\ ~sc'.isDead
             /\ stopReq'["complete"] = stopReq["complete"] + 1
       /\ (sc.songCompleted \/ sc.isDead) => handleSongComplete(Here) = Here
       /\ sc.songDuration = 0 => ~sc'.songCompleted
      ]_vars

\* The run is Completed, its audio stop requested by the completion.
C6_Witness ==
    /\ sc.songCompleted /\ ~sc.isRunning /\ ~sc.isDead
    /\ stopReq["complete"] = 1
    /\ getTrackTimeSec(sc) >= sc.songDuration

\* C7: once Dead or Completed, the run is never Starting or Running again.
C7_Terminal ==
    [][(sc.isDead \/ sc.songCompleted) =>
          (~sc'.isStarting /\ ~sc'.isRunning)]_vars

\* C8: a frame of a run that is not Running leaves the player's cell, the
\* spawn cursor, the hazards, the hotspots and the score unchanged.
C8_NoWorkUnlessRunning ==
    [][(Frame /\ ~sc.isRunning) =>
          /\ pl'.currentLaneIndex = pl.currentLaneIndex
          /\ pl'.currentColumnIndex = pl.currentColumnIndex
          /\ sc'.nextIndex = sc.nextIndex
          /\ sc'.greenScore = sc.greenScore
          /\ hz' = hz
          /\ hs' = hs]_vars

\* Frames have run after the death (the exit animation is over) with hazards
\* and hotspots present.
C8_Witness ==
    /\ sc.isDead /\ sc.restartVisible
    /\ phase.step = "idle"
    /\ hz.activeHazards # <<>>
    /\ hs.redHotspots # <<>>

\* C9: from the death until the menu, the hazards, the hotspots with their
\* active flags, the score and the spawn cursor do not change.
C9_Frozen ==
    [][(sc.isDead /\ ~sc.inMenu) =>
          /\ hz' = hz
          /\ hs'.greenHotspot = hs.greenHotspot
          /\ hs'.greenActive = hs.greenActive
          /\ hs'.redHotspots = hs.redHotspots
          /\ sc'.greenScore = sc.greenScore
          /\ sc'.nextIndex = sc.nextIndex]_vars

\* The orchestrator states of C10
Idle == ~sc.isStarting /\ ~sc.isRunning /\ ~sc.isDead /\ ~sc.songCompleted

AfterReset == \E i \in SaIds : starts[i].pc \in {"awaitMidi", "awaitAudio"}

\* C10: while Idle, and from startGame's reset until Running, there is no
\* hazard and no hotspot, and the score and the spawn cursor are 0.
C10_EmptyBeforeRunning ==
    (Idle \/ AfterReset) =>
        /\ hz.activeHazards = <<>>
        /\ hs.greenHotspot = NoCell
        /\ hs.redHotspots = <<>>
        /\ sc.greenScore = 0
        /\ sc.nextIndex = 0

\* A second start has done its reset and awaits its audio.
C10_Witness ==
    /\ hist.resets = 2
    /\ \E i \in SaIds : starts[i].pc = "awaitAudio"
    /\ hz.activeHazards = <<>>

\* C11: every accepted start request finishes, and finishes with isStarting
\* false and isRunning true: with audio disabled, with window.Tone missing
\* until the polling gives up, with Tone.start() or context.resume()
\* rejecting, and with the score load failing.
C11_StartFinishes ==
    /\ \A i \in SaIds :
          (starts[i].pc \notin {"none", "done"}) ~> (starts[i].pc = "done")
    /\ [][\A i \in SaIds :
            (starts[i].pc # "done" /\ starts'[i].pc = "done") =>
                (~sc'.isStarting /\ sc'.isRunning)]_vars

\* A start has finished Running although audio was wanted and window.Tone
\* never appeared: its startAudio gave up after the 50 polls.
C11_Witness ==
    /\ sc.isRunning /\ ~sc.isStarting
    /\ am.audioEnabled /\ sc.midiData /\ ~Tone.loaded
    /\ \E i \in SaIds : starts[i].pc = "done" /\ starts[i].sa # 0
                          /\ sa[starts[i].sa].res = Null

\* C12: when a call of the stop cleanup throws, no caller is left waiting on
\* a cleanup that has ended, and stopPromise is set only while a cleanup is
\* in flight (so that a later stop request starts a fresh cleanup).
C12_MarkerCleared ==
    /\ \A k \in 1..Len(stopWaiters) :
          stopWaiters[k].wait # 0 => stopWaiters[k].wait \in RunningBodies(am)
    /\ \A i \in SaIds : sa[i].wait # 0 => sa[i].wait \in RunningBodies(am)
    /\ am.stopPromise # 0 => am.stopPromise \in RunningBodies(am)

\* The score load has failed and a start has led to Running.
FailedLoadRun == sc.midiLoad = "settled" /\ ~sc.midiData /\ sc.isRunning

\* C13: in a run whose score load failed the event list is empty, no hazard
\* exists, and the beat timing is bpm = 120 with a beat of 0.5 s.
C13_FailedLoad ==
    FailedLoadRun =>
        /\ sc.events = EmptyTrack /\ sc.nextIndex = 0
        /\ hz.activeHazards = <<>>
        /\ sc.trackBPM = DefaultBPM
        /\ sc.secondsPerBeat = DefaultBeatMs

\* The start instant that the startAudio call of start i reported, if any
Reported(i) == IF starts[i].sa = 0 THEN Null ELSE sa[starts[i].sa].res

\* C14: the step that ends a start sets the clock base to W + (S - N) when
\* its startAudio reported the instant S (W, N: the wall and audio clocks at
\* that step), and to W otherwise; the elapsed time at wall time w is w minus
\* the base, so that with audio it is the audio clock's reading minus S.
C14_ClockBase ==
    /\ [][\A i \in SaIds :
            (starts[i].pc # "done" /\ starts'[i].pc = "done") =>
                sc'.trackStartMs = IF Reported(i) # Null
                                   THEN now + (Reported(i) - ToneNow)
                                   ELSE now]_vars
    /\ [](sc.trackStartMs \notin {Null, 0} =>
              getTrackTimeSec(sc) = now - sc.trackStartMs)
    /\ [](\A i \in SaIds :
            (i = StartCount /\ starts[i].pc = "done" /\ Reported(i) # Null)
                => getTrackTimeSec(sc) = ToneNow - Reported(i))

\* A run with audio is past its scheduled audio start, and the wall and
\* audio clocks read differently.
C14_Witness ==
    /\ sc.isRunning
    /\ \E i \in SaIds : starts[i].pc = "done" /\ Reported(i) # Null
                          /\ ToneNow > Reported(i)
    /\ getTrackTimeSec(sc) > 0
    /\ ToneNow # now

\* The number of events that this step dispatches, and the hazards that the
\* step leaves of those that existed before it
Dispatched == sc'.nextIndex - sc.nextIndex

Survivors == IF Frame /\ FrameRuns
             THEN MoveAll(hz.activeHazards, phase.delta)
             ELSE hz.activeHazards

\* The step begins a run (the reset of startGame) or delivers the score
NewTrack ==
    \/ \E i \in SaIds : starts[i].pc = "awaitStop" /\ starts'[i].pc = "awaitMidi"
    \/ sc.midiLoad = "pending" /\ sc'.midiLoad = "settled"

\* C15: the spawn cursor stays within [0, events.length] and decreases only
\* when a run begins; a frame spawns exactly one hazard for each event from
\* the old cursor to the new one, in list order, each on its event's lane;
\* no other step moves the cursor forward or spawns a hazard, and a frame
\* leaves the event list as it is.
C15_Cursor ==
    /\ [](sc.nextIndex >= 0 /\ sc.nextIndex <= Len(sc.events))
    /\ [][/\ sc'.nextIndex < sc.nextIndex => NewTrack
          /\ sc'.events # sc.events => NewTrack
          /\ sc'.nextIndex > sc.nextIndex => Frame
          /\ ~NewTrack =>
                /\ Len(hz'.activeHazards) = Len(Survivors) + Dispatched
                /\ \A j \in 1..Dispatched :
                      hz'.activeHazards[Len(Survivors) + j].y
                         - LaneY(clampRow(sc.events[sc.nextIndex + j].laneRow))
                      \in Offsets]_vars

\* Both events of the score were dispatched in one frame, and their hazards
\* are the last two, in the order of the list.
C15_Witness ==
    /\ sc.nextIndex = 2
    /\ Len(hz.activeHazards) >= 2
    /\ LET n == Len(hz.activeHazards)
       IN  /\ hz.activeHazards[n - 1].y = LaneY(ScoreEvents[1].laneRow)
           /\ hz.activeHazards[n].y = LaneY(ScoreEvents[2].laneRow)
           /\ hz.activeHazards[n - 1].x = hz.activeHazards[n].x

\* C16: there is at most one safe hotspot, which is arming or active but
\* not both, and there are at most 3 danger hotspots, arming and active
\* ones together, on different cells.
C16_Caps ==
    /\ Len(hs.redHotspots) <= 3
    /\ \A j, k \in 1..Len(hs.redHotspots) :
          (hs.redHotspots[j].row = hs.redHotspots[k].row
             /\ hs.redHotspots[j].col = hs.redHotspots[k].col) => j = k
    /\ hs.greenActive => hs.greenHotspot # NoCell /\ hs.greenArmAt = Null
    /\ hs.greenArmAt # Null => hs.greenHotspot # NoCell

\* Three danger hotspots and a safe one exist, and the qualifying
\* subdivision that follows the third danger hotspot has passed.
C16_Witness ==
    /\ Len(hs.redHotspots) = 3
    /\ hs.greenHotspot # NoCell
    /\ hs.lastBeatTime >= 4
    /\ hs.lastSubdivTime = 5

\* C17: no cell hosts an active safe hotspot and an active danger hotspot.
C17_NoSharedCell ==
    ~(/\ hs.greenHotspot # NoCell
      /\ hs.greenActive
      /\ checkRedHotspots(hs, hs.greenHotspot.row, hs.greenHotspot.col))

\* A danger hotspot without its active flag, which the activation changes
Plain(h) == [h EXCEPT !.active = FALSE]

PlainReds(g) == [k \in 1..Len(g.redHotspots) |-> Plain(g.redHotspots[k])]

\* The danger hotspots whose expireEvent is due when the clock reads t
DueReds(g, t) == {k \in 1..Len(g.redHotspots) : g.redHotspots[k].expireAt <= t}

\* The step is startGame's reset of the hotspots
IsReset == hist'.resets = hist.resets + 1

\* C20: a danger hotspot exists from its creation until its expireEvent
\* fires 10 s later, unless a reset removes it: none outlives its 10 s, none
\* leaves earlier except by a reset, the expiry of one hotspot removes that
\* hotspot alone, and removeRedHotspot leaves the collection as it is when
\* the hotspot is not in it.
C20_Expiry ==
    /\ [](\A k \in 1..Len(hs.redHotspots) :
            /\ now < hs.redHotspots[k].expireAt
            /\ hs.redHotspots[k].expireAt - RedExpireMs <= now)
    /\ [](\A r \in 0..(Rows - 1), c \in 0..(Cols - 1) :
            ~IsRed(hs, [row |-> r, col |-> c]) =>
               removeRedHotspot(hs.redHotspots,
                   [row |-> r, col |-> c, active |-> TRUE,
                    armAt |-> now, expireAt |-> now]) = hs.redHotspots)
    /\ [][/\ (~IsReset /\ now' = now) =>
                \A k \in 1..Len(hs.redHotspots) :
                   hs'.redHotspots[k] = hs.redHotspots[k]
          /\ (~IsReset /\ now' # now) =>
                /\ Cardinality(DueReds(hs, now')) <= 1
                /\ PlainReds(hs') =
                      IF DueReds(hs, now') = {} THEN PlainReds(hs)
                      ELSE removeRedHotspot(PlainReds(hs),
                              Plain(hs.redHotspots[
                                  CHOOSE k \in DueReds(hs, now') : TRUE]))
         ]_vars

\* Without a reset, the first danger hotspots have expired and one that
\* was created before the latest expiry is still there.
C20_Witness ==
    /\ hist.resets = 0
    /\ now >= StartNow + RedExpireMs + 500
    /\ \E k \in 1..Len(hs.redHotspots) :
          hs.redHotspots[k].expireAt - RedExpireMs < now - RedExpireMs + 1000

\* The hotspots as the checks of this frame find them (after step 3)
HsAtChecks ==
    updateHotspotsFromBeats(hs, getTrackTimeSec(sc), sc.trackBPM,
                            sc.secondsPerBeat, now)

\* The player's cell as the checks of this frame find it (after step 1)
OnGreen(g) ==
    /\ g.greenHotspot # NoCell
    /\ g.greenHotspot.row = pl'.currentLaneIndex
    /\ g.greenHotspot.col = pl'.currentColumnIndex

OnRed(g, k) ==
    /\ g.redHotspots[k].row = pl'.currentLaneIndex
    /\ g.redHotspots[k].col = pl'.currentColumnIndex

\* C18: a hotspot is active exactly from the end of its arming phase, and
\* while it is arming the checks are false for its cell: a frame whose
\* player stands on an arming safe cell does not score, and one whose
\* player stands on an arming danger cell, away from the hazards, does not
\* kill.
C18_ArmingInert ==
    /\ [](/\ \A k \in 1..Len(hs.redHotspots) :
              /\ hs.redHotspots[k].active <=> hs.redHotspots[k].armAt <= now
              /\ ~hs.redHotspots[k].active =>
                    ~checkRedHotspots(hs, hs.redHotspots[k].row,
                                      hs.redHotspots[k].col)
          /\ hs.greenArmAt # Null =>
                 /\ now < hs.greenArmAt /\ ~hs.greenActive
                 /\ ~GreenHit(hs, hs.greenHotspot.row, hs.greenHotspot.col))
    /\ [][/\ (~hs.greenActive /\ hs'.greenActive) =>
                hs.greenArmAt # Null /\ hs.greenArmAt <= now'
          /\ (Frame /\ OnGreen(HsAtChecks) /\ ~HsAtChecks.greenActive) =>
                sc'.greenScore = sc.greenScore /\ hs'.greenHotspot # NoCell
          /\ (Frame /\ ~HazardNear /\
                \E k \in 1..Len(HsAtChecks.redHotspots) :
                   OnRed(HsAtChecks, k) /\ ~HsAtChecks.redHotspots[k].active)
                => sc'.isDead = sc.isDead
         ]_vars

\* A frame of a run has just ended alive with the player on an arming
\* danger cell.
C18_Witness ==
    /\ sc.isRunning /\ ~sc.isDead
    /\ phase.step = "idle"
    /\ \E k \in 1..Len(hs.redHotspots) :
          /\ ~hs.redHotspots[k].active
          /\ hs.redHotspots[k].row = pl.currentLaneIndex
          /\ hs.redHotspots[k].col = pl.currentColumnIndex

\* This frame reaches its checks with an active safe hotspot on the player's
\* cell.
Scores ==
    /\ Frame /\ FrameRuns
    /\ GreenHit(HsAtChecks, pl'.currentLaneIndex, pl'.currentColumnIndex)

\* C19: the score grows by 1 in the frames of a run that find an active
\* safe hotspot on the player's cell, and that hotspot is gone after the
\* frame; in every other step the score is unchanged, or it returns to 0
\* outside a run.
C19_Score ==
    [][/\ Scores => /\ sc'.greenScore = sc.greenScore + 1
                    /\ hs'.greenHotspot = NoCell /\ ~hs'.greenActive
       /\ ~Scores => \/ sc'.greenScore = sc.greenScore
                     \/ sc'.greenScore = 0 /\ ~sc.isRunning /\ ~sc'.isRunning
      ]_vars

\* The run has scored.
C19_Witness == sc.isRunning /\ sc.greenScore >= 1

\* checkGreenHotspot and checkRedHotspots are false for every cell
AllChecksFalse(g) ==
    \A r \in 0..(Rows - 1), c \in 0..(Cols - 1) :
        ~GreenHit(g, r, c) /\ ~checkRedHotspots(g, r, c)

\* No hotspot, and so no tween or timer of a hotspot
NoHotspot(g) ==
    /\ g.greenHotspot = NoCell /\ ~g.greenActive /\ g.greenArmAt = Null
    /\ g.redHotspots = <<>>

\* The beat or the subdivision of this frame's track time qualifies
BeatQualifies ==
    LET t == getTrackTimeSec(sc)
    IN  \/ JSMod(t \div sc.secondsPerBeat, hs.greenEveryBeats) = 0
        \/ JSMod((t * RedEverySubdiv) \div sc.secondsPerBeat,
                 RedEverySubdiv) = 1

\* C21: reset() leaves no hotspot; from then on the checks are false for
\* every cell, and a hotspot appears again only in a frame whose beat or
\* subdivision qualifies.
C21_QuietAfterReset ==
    /\ [](NoHotspot(hs) => AllChecksFalse(hs))
    /\ [][/\ IsReset => NoHotspot(hs')
          /\ (NoHotspot(hs) /\ ~NoHotspot(hs')) =>
                Frame /\ BeatQualifies /\ AllChecksFalse(hs')
         ]_vars

\* The reset of a run that had hotspots has just been done: the clock base
\* is the present, and there is no hotspot.
C21_Witness ==
    /\ hist.resets = 1
    /\ sc.trackStartMs = now /\ now >= StartNow + 1000
    /\ NoHotspot(hs)

\* The beat index of this frame's track time
CurrentBeat == getTrackTimeSec(sc) \div sc.secondsPerBeat

\* This step is a call of update that reaches the hotspots
Updated == Frame /\ hist'.lags = hist.lags

\* This frame has spawned a safe hotspot
GreenSpawned ==
    /\ Frame
    /\ hs'.greenHotspot # NoCell
    /\ hs'.greenArmAt = now + ArmMs

C23_GreenSpawnGuard ==
    [][GreenSpawned =>
          /\ JSMod(CurrentBeat, hs.greenEveryBeats) = 0
          /\ CurrentBeat # hs.lastBeatTime
          /\ hs.greenHotspot = NoCell
      ]_vars

\* The subdivision index of this frame's track time
CurrentSubdiv == (getTrackTimeSec(sc) * RedEverySubdiv) \div sc.secondsPerBeat

\* The cell of the danger hotspot of subdivision s
SubdivCell(s) == getCellFromBeatIndex(s, SeedA, SeedB)

\* The cell is free for a danger hotspot in this frame
FreeForRed(cell) ==
    /\ ~IsRed(hs, cell)
    /\ HsAtChecks.greenHotspot # cell
    /\ Len(hs.redHotspots) < MaxRed

\* This frame has spawned a danger hotspot
RedSpawned == Frame /\ Len(hs'.redHotspots) > Len(hs.redHotspots)

\* The subdivision in which a danger hotspot of the list was spawned
SubdivOf(h) ==
    ((h.expireAt - RedExpireMs - sc.trackStartMs) * RedEverySubdiv)
        \div sc.secondsPerBeat

Built == sc.track.built /\ sc.midiData # NoScore /\ ~sc.track.threw

\* The notes of the selected tracks that pass the velocity filter
RECURSIVE Passing(_, _)
Passing(tracks, config) ==
    IF tracks = <<>> THEN 0
    ELSE Cardinality({j \in 1..Len(Head(tracks)) :
                         Head(tracks)[j].velocity >= config.velocityMin})
         + Passing(Tail(tracks), config)

\* C25: with density 1 and a very large maxEventsPerSec the returned track
\* has one event for each note of the selected tracks whose velocity is not
\* below velocityMin, notes of the same onset included.
C25_AllNotesKept ==
    (Built /\ sc.params.density = <<1, 1>>
           /\ sc.params.maxEventsPerSec = LargeCap)
       => Len(sc.track.events) =
             Passing(SelectTracks(sc.midiData, sc.params), sc.params)

\* C26: the events of the returned track are in non-decreasing order of
\* timeSec, for every score and every configuration.
C26_Sorted ==
    Built =>
       \A k \in 1..(Len(sc.track.events) - 1) :
           sc.track.events[k].timeSec <= sc.track.events[k + 1].timeSec

\* A track of three events or more, built from two tracks of which the
\* second begins before the first ends.
C26_Witness ==
    /\ Built
    /\ Len(sc.track.events) >= 3
    /\ Len(sc.midiData.tracks) = 2
    /\ \E j \in 1..Len(sc.midiData.tracks[1]),
          k \in 1..Len(sc.midiData.tracks[2]) :
          sc.midiData.tracks[2][k].time < sc.midiData.tracks[1][j].time

\* The time-sorted events before the density filter, and before the cap
SortedEvents ==
    SortByTime(Collect(SelectTracks(sc.midiData, sc.params),
                       BeatMsOf(sc.track.bpm), sc.params))

CapInput == DensityFilter(SortedEvents, sc.params)

\* s is t without some of its elements
RECURSIVE IsSubsequence(_, _)
IsSubsequence(s, t) ==
    IF s = <<>> THEN TRUE
    ELSE IF t = <<>> THEN FALSE
    ELSE IF Head(s) = Head(t) THEN IsSubsequence(Tail(s), Tail(t))
    ELSE IsSubsequence(s, Tail(t))

\* C27: with maxEventsPerSec > 0, two consecutive events of the returned
\* track are at least 1/maxEventsPerSec apart, the first of the time-sorted
\* events is kept, and an event is left out only when a kept event precedes
\* it by less than that interval.
C27_RateCap ==
    (Built /\ sc.params.maxEventsPerSec > 0) =>
       /\ IsSubsequence(sc.track.events, CapInput)
       /\ \A k \in 1..(Len(sc.track.events) - 1) :
             GapEnough(sc.track.events[k + 1].timeSec
                          - sc.track.events[k].timeSec,
                       sc.params.maxEventsPerSec)
       /\ CapInput # <<>> =>
             /\ sc.track.events # <<>>
             /\ sc.track.events[1] = CapInput[1]
       /\ \A i \in 1..Len(CapInput) :
             (\A k \in 1..Len(sc.track.events) :
                 sc.track.events[k] # CapInput[i])
             => \E k \in 1..Len(sc.track.events) :
                   /\ sc.track.events[k].timeSec <= CapInput[i].timeSec
                   /\ ~GapEnough(CapInput[i].timeSec
                                    - sc.track.events[k].timeSec,
                                 sc.params.maxEventsPerSec)

\* A cap of 2 per second has kept two events and left one out.
C27_Witness ==
    /\ Built
    /\ sc.params.maxEventsPerSec = 2
    /\ Len(sc.track.events) >= 2
    /\ Len(CapInput) > Len(sc.track.events)

\* round(1/density): the integer r with r - 1/2 <= 1/density < r + 1/2
RoundOfInverse(density) ==
    CHOOSE r \in 1..(density[2] + 1) :
        /\ (2 * r - 1) * density[1] <= 2 * density[2]
        /\ 2 * density[2] < (2 * r + 1) * density[1]

\* The events of s at the indices 0, step, 2 step, ...
EveryNth(s, step) ==
    [k \in 1..((Len(s) + step - 1) \div step) |-> s[(k - 1) * step + 1]]

\* C28: for a density in (0, 1) the builder keeps, of the time-sorted
\* events, those at the indices i with i mod round(1/density) = 0, and for
\* any other density all of them; the rate cap is applied to the events
\* that are kept.
C28_Density ==
    Built =>
       /\ CapInput =
             IF sc.params.density[1] > 0
                /\ sc.params.density[1] < sc.params.density[2]
             THEN EveryNth(SortedEvents, RoundOfInverse(sc.params.density))
             ELSE SortedEvents
       /\ sc.track.events = RateCap(CapInput, sc.params)
       /\ sc.params.maxEventsPerSec = 0 => sc.track.events = CapInput

\* A density of 0.4 has kept the events at the indices 0 and 3 of four.
C28_Witness ==
    /\ Built
    /\ sc.params.density = <<2, 5>>
    /\ sc.params.maxEventsPerSec = 0
    /\ Len(SortedEvents) = 4
    /\ sc.track.events = <<SortedEvents[1], SortedEvents[4]>>

\* The score is missing, or it has no tempo event and no track or no note
EmptyScore(midiData) ==
    \/ midiData = NoScore
    \/ /\ midiData.tempos = <<>>
       /\ \A k \in 1..Len(midiData.tracks) : midiData.tracks[k] = <<>>

\* C29: for a missing score and for a score without tempo events and
\* without tracks or notes, whatever the track selection, the builder
\* returns, and returns no event, 120 bpm, a beat of 0.5 s and a duration
\* of 0 (the tempo not being overridden by the configuration).
C29_EmptyScore ==
    (sc.track.built /\ EmptyScore(sc.midiData) /\ sc.params.bpmOverride = 0) =>
       /\ ~sc.track.threw
       /\ sc.track.events = <<>>
       /\ sc.track.bpm = 120
       /\ sc.track.secondsPerBeat = 500
       /\ sc.track.songDuration = 0

\* The number of rows of the grid: gridRows, 3 when unset, within 3..5
RowsOf(config) ==
    IF config.gridRows = 0 THEN 3
    ELSE IF config.gridRows < 3 THEN 3
    ELSE IF config.gridRows > 5 THEN 5 ELSE config.gridRows

LowPitch(config) == Min(config.lowCut, config.highCut)

HighPitch(config) == Max(config.lowCut, config.highCut)

\* The lane of the claim for a pitch: floor(normalized * rows) counted from
\* the top, at most rows - 1, normalized = (clamped - min) / max(1, max - min)
LaneOf(midi, config) ==
    LET clamped == IF midi < LowPitch(config) THEN LowPitch(config)
                   ELSE IF midi > HighPitch(config) THEN HighPitch(config)
                   ELSE midi
        range == IF HighPitch(config) = LowPitch(config) THEN 1
                 ELSE HighPitch(config) - LowPitch(config)
        fromTop == CHOOSE q \in 0..RowsOf(config) :
                      /\ q * range <= (clamped - LowPitch(config)) * RowsOf(config)
                      /\ (clamped - LowPitch(config)) * RowsOf(config)
                            < (q + 1) * range
    IN  (RowsOf(config) - 1) - Min(RowsOf(config) - 1, fromTop)

\* C30: the lane row of a pitch is (rows - 1) - min(rows - 1,
\* floor(normalized * rows)) for the pitch clamped between the two cuts in
\* either order, it is one of the rows 0..rows-1, and it does not grow with
\* the pitch.
C30_PitchToLane ==
    sc.laneRow # Null =>
       /\ sc.laneRow = LaneOf(sc.midi, sc.params)
       /\ sc.laneRow \in 0..(RowsOf(sc.params) - 1)
       /\ \A m \in Pitches :
             m >= sc.midi => mapPitchToLane(m, sc.params) <= sc.laneRow

\* A pitch between cuts given in reversed order is mapped to a middle row
\* of a grid of 5 rows.
C30_Witness ==
    /\ sc.laneRow = 2
    /\ sc.params.lowCut > sc.params.highCut
    /\ sc.params.gridRows = 5
    /\ sc.midi > sc.params.highCut /\ sc.midi < sc.params.lowCut

\* C31: the cell of a beat index is the cell of index
\* (beatIndex * seedA + seedB) mod (rows * cols), with row = index div cols
\* and col = index mod cols, a cell of the grid, for all integers.
C31_CellOnGrid ==
    sc.cell # NoCell =>
       /\ sc.cell.row \in 0..(Rows - 1)
       /\ sc.cell.col \in 0..(Cols - 1)
       /\ sc.cell.row * Cols + sc.cell.col =
             (sc.beatIndex * sc.seedA + sc.seedB) % (Rows * Cols)

\* The step is a call of update of the HazardManager with this delta
Advance == now' - now

\* The hazard after the motion of this step
After(h) == [h EXCEPT !.x = h.x + (h.vx * Advance) \div 1000]

\* The hazard leaves the screen by the side it moves to
Leaves(h) ==
    \/ h.vx > 0 /\ h.x > Width + CleanupMargin
    \/ h.vx < 0 /\ h.x < 0 - CleanupMargin

\* C32: an update moves every hazard by velocityX * deltaSec and removes
\* exactly those that are then more than 100 px beyond the screen on the
\* side they move to; the others stay, in their order; a hazard is never
\* removed on the side it came from.
C32_Retire ==
    /\ [][now' # now =>
            /\ hz'.activeHazards =
                  SelectSeq([k \in 1..Len(hz.activeHazards) |->
                                After(hz.activeHazards[k])],
                            LAMBDA h : ~Leaves(h))
            /\ \A k \in 1..Len(hz.activeHazards) :
                  (/\ hz.activeHazards[k].vx > 0
                   /\ hz.activeHazards[k].x >= Width + 150)
                  => \A j \in 1..Len(hz'.activeHazards) :
                        hz'.activeHazards[j] # After(hz.activeHazards[k])
            /\ \A k \in 1..Len(hz.activeHazards) :
                  (\/ /\ hz.activeHazards[k].vx > 0
                      /\ After(hz.activeHazards[k]).x <= Width + CleanupMargin
                   \/ /\ hz.activeHazards[k].vx < 0
                      /\ After(hz.activeHazards[k]).x >= 0 - CleanupMargin)
                  => \E j \in 1..Len(hz'.activeHazards) :
                        hz'.activeHazards[j] = After(hz.activeHazards[k])
        ]_vars
    /\ [](\A k \in 1..Len(hz.activeHazards) :
             now > StartNow => ~Leaves(hz.activeHazards[k]))

\* After an update, a hazard moving left is live beyond the right margin,
\* and one moving right is live exactly on it.
C32_Witness ==
    /\ now > StartNow
    /\ \E k \in 1..Len(hz.activeHazards) :
          /\ hz.activeHazards[k].vx < 0
          /\ hz.activeHazards[k].x > Width + CleanupMargin
    /\ \E k \in 1..Len(hz.activeHazards) :
          /\ hz.activeHazards[k].vx > 0
          /\ hz.activeHazards[k].x = Width + CleanupMargin

\* The squared distance of a hazard to the sprite
Dist2(h) ==
    (h.x - ColumnX(pl.sprite.col)) * (h.x - ColumnX(pl.sprite.col))
      + (h.y - LaneY(pl.sprite.row)) * (h.y - LaneY(pl.sprite.row))

Reverse(s) == [k \in 1..Len(s) |-> s[Len(s) + 1 - k]]

\* C33: an update reports exactly the hazards that it has not retired and
\* that are, after their motion, less than 36 px from the sprite; the
\* hazards reported and the hazards that stay are the same when the list
\* is processed in the opposite order.
C33_Collisions ==
    [][now' # now =>
         /\ sc'.collisions =
               {h \in Range(hz'.activeHazards) :
                   Dist2(h) < HitDistance * HitDistance}
         /\ sc'.collisions \subseteq
               {After(hz.activeHazards[k]) : k \in 1..Len(hz.activeHazards)}
         /\ \E u \in {HazardUpdate([hz EXCEPT !.activeHazards = Reverse(@)],
                                    Advance, pl.sprite)} :
               /\ u.hz.activeHazards = Reverse(hz'.activeHazards)
               /\ {u.hz.activeHazards[k] : k \in u.collisions}
                     = sc'.collisions
      ]_vars

\* An update has reported one of two hazards; the other is exactly 36 px
\* from the sprite.
C33_Witness ==
    /\ Len(hz.activeHazards) = 2
    /\ Cardinality(sc.collisions) = 1
    /\ \E k \in 1..2 :
          /\ hz.activeHazards[k] \notin sc.collisions
          /\ (hz.activeHazards[k].x - ColumnX(pl.sprite.col))
               * (hz.activeHazards[k].x - ColumnX(pl.sprite.col))
             + (hz.activeHazards[k].y - LaneY(pl.sprite.row))
               * (hz.activeHazards[k].y - LaneY(pl.sprite.row))
             = HitDistance * HitDistance

----------------------------------------------------------------------------
(* PlayerManager on its own: handleInput and reset in any order *)

\* JustDown of the four cursor keys: up and down exclude each other, left
\* and right exclude each other, the two axes are read independently.
KeyPairs == {<<dv, dh>> : dv \in {-1, 0, 1}, dh \in {-1, 0, 1}}

\* Arguments of reset, on and off the grid
ResetIndexes == (0 - 2)..(Rows + 1)

PlayerCell(p) == [row |-> p.currentLaneIndex, col |-> p.currentColumnIndex]

PlInput(dv, dh) ==
    /\ pl' = handleInput(pl, dv, dh)
    /\ sc' = [op |-> "handleInput", dv |-> dv, dh |-> dh,
              from |-> PlayerCell(pl)]
    /\ UNCHANGED <<audioVars, starts, hz, hs, phase, hist, now>>

PlReset(laneIndex, columnIndex) ==
    /\ pl' = PlayerReset(pl, laneIndex, columnIndex)
    /\ sc' = [op |-> "reset", dv |-> 0, dh |-> 0, from |-> PlayerCell(pl)]
    /\ UNCHANGED <<audioVars, starts, hz, hs, phase, hist, now>>

PlTweenDone ==
    /\ pl.moveTween # NoCell
    /\ pl' = MoveTweenDone(pl)
    /\ UNCHANGED <<audioVars, sc, starts, hz, hs, phase, hist, now>>

InitPlayer ==
    /\ InitAudioManager(FALSE)
    /\ InitRest
    /\ sc = [op |-> "create", dv |-> 0, dh |-> 0,
             from |-> [row |-> getCenterRow, col |-> getCenterColumn]]

NextPlayer ==
    \/ \E k \in KeyPairs : PlInput(k[1], k[2])
    \/ \E l \in ResetIndexes, c \in ResetIndexes : PlReset(l, c)
    \/ PlTweenDone

SpecPlayer == InitPlayer /\ [][NextPlayer]_vars

Abs(n) == IF n < 0 THEN 0 - n ELSE n

\* C34: after any sequence of handleInput and reset calls the player's cell
\* is on the grid; a handleInput call changes each axis by at most 1, and
\* changes nothing when no direction key was freshly pressed.
C34_OnGrid ==
    /\ pl.currentLaneIndex \in 0..(Rows - 1)
    /\ pl.currentColumnIndex \in 0..(Cols - 1)
    /\ sc.op = "handleInput" =>
          /\ Abs(pl.currentLaneIndex - sc.from.row) <= 1
          /\ Abs(pl.currentColumnIndex - sc.from.col) <= 1
          /\ sc.dv = 0 /\ sc.dh = 0 => PlayerCell(pl) = sc.from

\* Up and left were pressed in the top left corner.
C34_Witness ==
    /\ sc.op = "handleInput"
    /\ sc.dv = -1 /\ sc.dh = -1
    /\ sc.from = [row |-> 0, col |-> 0]
    /\ PlayerCell(pl) = [row |-> 0, col |-> 0]

----------------------------------------------------------------------------
(* The dispatch loop and the track clock *)

\* The time up to which the dispatch loop of this frame spawns events
DueLimit == getTrackTimeSec(sc) + LookaheadMs

\* C35: at the end of the dispatch step of every frame of a run no
\* undispatched event is due (the cursor is at the end of the list or every
\* event from the cursor on is later than the track time plus the
\* lookahead), and every event dispatched in the frame was due.
C35_NoDueLeft ==
    [][Frame /\ FrameRuns =>
         /\ \A j \in 1..Len(sc.events) :
               /\ j > sc'.nextIndex => sc.events[j].timeSec > DueLimit
               /\ j > sc.nextIndex /\ j <= sc'.nextIndex
                    => sc.events[j].timeSec <= DueLimit
         /\ sc'.events = sc.events
      ]_vars

\* The run goes on, its first event is dispatched and the second, not yet
\* due, is under the cursor.
C35_Witness ==
    /\ sc.isRunning
    /\ phase.step = "idle"
    /\ sc.nextIndex = 1
    /\ Len(sc.events) = 2
    /\ sc.events[1].timeSec <= DueLimit
    /\ sc.events[2].timeSec > DueLimit

----------------------------------------------------------------------------
(* The Dead transition *)

\* C36: the side effects of the Dead transition happen at most once per
\* run: a step requests at most one audio stop for a hit, and only in going
\* from not Dead to Dead, where it starts the exit animation; once Dead, no
\* step requests another or restarts the animation, and handlePlayerHit
\* changes nothing, also when the player is on an armed red hotspot and a
\* hazard is on the sprite in the same frame.
C36_DiesOnce ==
    [][/\ stopReq'["hit"] - stopReq["hit"] \in {0, 1}
       /\ stopReq'["hit"] # stopReq["hit"] =>
             /\ ~sc.isDead /\ sc'.isDead
             /\ sc'.deathTweenAt = now + DeathTweenMs
       /\ sc.isDead =>
             /\ stopReq'["hit"] = stopReq["hit"]
             /\ sc'.isDead => sc'.deathTweenAt \in {sc.deathTweenAt, Null}
             /\ handlePlayerHit(Here) = Here
      ]_vars

\* The run ended Dead in a frame that found both the player on an armed red
\* hotspot and a hazard on the sprite; one stop was requested.
C36_Witness ==
    /\ sc.isDead
    /\ stopReq["hit"] = 1
    /\ sc.deathTweenAt = now + DeathTweenMs
    /\ checkRedHotspots(hs, pl.currentLaneIndex, pl.currentColumnIndex)
    /\ \E k \in 1..Len(hz.activeHazards) : Near(hz.activeHazards[k], pl.sprite)

----------------------------------------------------------------------------
(* The run flags *)

Completes == Frame /\ ~sc.songCompleted /\ sc'.songCompleted

\* C37: isDead and songCompleted are never both true, and isRunning is true
\* only when both are false; the frame in which the song completes checks
\* no hazard and no hotspot (it moves no hazard, changes no hotspot, and
\* requests no stop for a hit), and no step makes a Completed run Dead.
C37_Flags ==
    /\ [](~(sc.isDead /\ sc.songCompleted))
    /\ [](sc.isRunning => ~sc.isDead /\ ~sc.songCompleted)
    /\ [][/\ Completes =>
                /\ hz' = hz /\ hs' = hs /\ pl' = pl
                /\ sc'.greenScore = sc.greenScore
                /\ stopReq'["hit"] = stopReq["hit"]
          /\ sc.songCompleted => ~sc'.isDead
         ]_vars

\* The run is Completed and not Dead, with the player on an armed red
\* hotspot or a hazard on the sprite.
C37_Witness ==
    /\ sc.songCompleted /\ ~sc.isDead /\ ~sc.isRunning
    /\ \/ checkRedHotspots(hs, pl.currentLaneIndex, pl.currentColumnIndex)
       \/ \E k \in 1..Len(hz.activeHazards), d \in Deltas :
             Near(Moved(hz.activeHazards[k], d), pl.sprite)

----------------------------------------------------------------------------
(* The score load against create() *)

\* The load of this visit succeeded: buildMIDIEvents ran on the score.
LoadSucceeded == sc.midiLoad = "settled" /\ sc.midiData

\* C38: if the score load succeeds, with a positive song duration from the
\* Event Builder, then in every later Running state the songDuration of the
\* completion check is that duration, whether the load settles before or
\* after create() and before or after the start request.
C38_SongDuration ==
    (sc.isRunning /\ LoadSucceeded) => sc.songDuration = ScoreDurationMs

----------------------------------------------------------------------------
(* Start and stop requests on the AudioManager, the last one remembered *)

StopRequest ==
    /\ ~MicrotaskReady
    /\ stopReq["client"] < MaxClientCalls
    /\ CanStop(World)
    /\ LET r == stopAudio(World)
       IN  /\ am' = r.am
           /\ Tone' = r.Tone
           /\ stopWaiters' = Append(stopWaiters,
                                    [who |-> "client", wait |-> r.ret])
    /\ stopReq' = Called("client")
    /\ sc' = [lastRequest |-> "stop"]
    /\ UNCHANGED <<sa, saCount, starts, pl, hz, hs, phase, hist, now>>

StartRequest(hasMidi, ntracks) ==
    /\ ~MicrotaskReady
    /\ saCount < MaxStarts
    /\ CanStop(World)
    /\ LET r == startAudio(World, hasMidi, ntracks)
       IN  /\ am' = r.am
           /\ Tone' = r.Tone
           /\ sa' = [sa EXCEPT ![saCount + 1] = r.rec]
    /\ saCount' = saCount + 1
    /\ stopReq' = Called("startAudio")
    /\ sc' = [lastRequest |-> "start"]
    /\ UNCHANGED <<stopWaiters, starts, pl, hz, hs, phase, hist, now>>

InitRequests ==
    /\ InitAudioManager(TRUE)
    /\ InitRest
    /\ sc = [lastRequest |-> "none"]

NextRequests ==
    \/ StopRequest
    \/ \E m \in BOOLEAN : \E n \in 1..MaxTracks : StartRequest(m, n)
    \/ \E k \in 1..MaxClientCalls : WaiterResume(k)
    \/ AudioStep

SpecRequests == InitRequests /\ [][NextRequests]_vars

\* Every request has resolved: no start is suspended, no cleanup is in
\* flight and no caller waits for one.
AllResolved ==
    /\ \A i \in SaIds : sa[i].pc \in {"none", "done"}
    /\ RunningBodies(am) = {}
    /\ stopWaiters = <<>>

\* C39: once all start and stop requests have resolved and the last request
\* issued was a stop, no voices or parts remain, the transport is not
\* started and audioStarted is false, also when the stop was issued while a
\* start was suspended at one of its awaits.
C39_StopLast ==
    (AllResolved /\ sc.lastRequest = "stop") =>
        /\ am.midiPlayers = <<>>
        /\ am.parts = <<>>
        /\ Tone.transport # "started"
        /\ ~am.audioStarted

----------------------------------------------------------------------------
(* The arming of safe hotspots in a run that stays Running *)

ArmTick(delta) == now + delta <= MaxArmNow /\ HsTick(delta)

NextArming ==
    \/ \E d \in Deltas : ArmTick(d)
    \/ \E r \in 0..(Rows - 1), c \in 0..(Cols - 1) : HsUpdate(r, c)

\* The game loop goes on: the clock advances, and update() follows each
\* advance.
ArmingFairness ==
    /\ WF_vars(\E d \in Deltas : ArmTick(d))
    /\ []<>(phase.step = "idle")

SpecArming == InitHotspots /\ [][NextArming]_vars /\ ArmingFairness

\* The clock values at which an activation tween started in a frame ends
ArmTimes == {t + ArmMs : t \in {u \in StartNow..(MaxArmNow - ArmMs) :
                                   \E d \in Deltas : (u - StartNow) % d = 0}}

\* The activation tween that ends at clock value a has completed: its
\* hotspot is collectable.
ArmedAt(a) == hs.greenActive /\ hs.greenHotspot # NoCell /\ now = a

\* C40: while the run stays Running, every spawned safe hotspot eventually
\* completes its arming phase and becomes collectable, for every beat
\* period: the hotspot whose arming ends at a is collectable at a.
C40_ArmingCompletes ==
    \A a \in ArmTimes : (hs.greenArmAt = a) ~> ArmedAt(a)

====
